---- MODULE Spec2Model ----
EXTENDS Integers, Sequences, FiniteSets, TLC

(***************************************************************************)
(* Model of the Cranelift IR interpreter with tracing                      *)
(* (cranelift/interpreter/src/interpreter.rs, tracing.rs) and of the       *)
(* constant folder (cranelift/preopt/src/constant_folding.rs).             *)
(***************************************************************************)

\* Number of top-level calls made on one Interpreter.
MaxCalls == 2
\* Largest integer argument handed to a top-level call.
MaxArg == 2
\* Largest immediate of the constants in the functions handed to fold_constants.
MaxConst == 2
\* Number of times fold_constants is run on one function, each on the result of the last.
MaxRuns == 2

(***************************************************************************)
(* Values and instructions                                                 *)
(***************************************************************************)

\* cranelift_value::Value, the variants the interpreter matches on.
IntV(n) == [t |-> "int", v |-> n]
BoolV(b) == [t |-> "bool", v |-> IF b THEN 1 ELSE 0]
\* A register of a Frame that no instruction has written yet.
Unset == [t |-> "unset", v |-> 0]

None == <<>>
Some(x) == <<x>>

\* InstructionData: one record shape for all the formats the interpreter matches.
Ins(op, res, args, imm, dest, fn, cond) ==
    [op |-> op, res |-> res, args |-> args, imm |-> imm, dest |-> dest, fn |-> fn, cond |-> cond]

Iadd(r, a, b) == Ins("iadd", <<r>>, <<a, b>>, 0, 0, "", "")
Isub(r, a, b) == Ins("isub", <<r>>, <<a, b>>, 0, 0, "", "")
Udiv(r, a, b) == Ins("udiv", <<r>>, <<a, b>>, 0, 0, "", "")
IrsubImm(r, a, imm) == Ins("irsub_imm", <<r>>, <<a>>, imm, 0, "", "")
Brnz(args, dest) == Ins("brnz", <<>>, args, 0, dest, "", "")
Call(res, fn, args) == Ins("call", res, args, 0, 0, fn, "")
Jump(dest, args) == Ins("jump", <<>>, args, 0, dest, "", "")
Fallthrough(dest, args) == Ins("fallthrough", <<>>, args, 0, dest, "", "")
IcmpImm(r, cond, a, imm) == Ins("icmp_imm", <<r>>, <<a>>, imm, 0, "", cond)
Return(args) == Ins("return", <<>>, args, 0, 0, "", "")
TraceStart(id) == Ins("trace_start", <<>>, <<>>, id, 0, "", "")
Nop == Ins("nop", <<>>, <<>>, 0, 0, "", "")
Iconst(r, imm) == Ins("iconst", <<r>>, <<>>, imm, 0, "", "")
TraceEnd(id) == Ins("trace_end", <<>>, <<>>, id, 0, "", "")
Bconst(r, b) == Ins("bconst", <<r>>, <<>>, IF b THEN 1 ELSE 0, 0, "", "")

Blk(params, insts) == [params |-> params, insts |-> insts]
Func(name, blocks, dfg) == [name |-> name, blocks |-> blocks, dfg |-> dfg]

(***************************************************************************)
(* The Environment: the functions the interpreter is run on.  A FuncRef    *)
(* is an index into Env, an Inst an index into the function's dfg, a Block *)
(* an index into its layout.                                               *)
(***************************************************************************)

\* function %add(i32, i32) -> i32
FnAdd ==
    Func("%add", << Blk(<<0, 1>>, <<1, 2>>) >>,
         << Iadd(2, 0, 1), Return(<<2>>) >>)

\* one traced region: trace_start 1 ... trace_end 1
FnTraced ==
    Func("%traced", << Blk(<<>>, <<1, 2, 3, 4, 5>>) >>,
         << TraceStart(1), Iconst(1, 2), Iadd(2, 1, 1), TraceEnd(1), Return(<<2>>) >>)

\* two traced regions with distinct ids, one after the other
FnTwo ==
    Func("%two", << Blk(<<>>, <<1, 2, 3, 4, 5, 6, 7>>) >>,
         << TraceStart(2), Bconst(1, TRUE), TraceEnd(2),
            TraceStart(3), Nop, TraceEnd(3), Return(<<1>>) >>)

\* a callee that starts a trace and returns while it is active
FnCalleeStart ==
    Func("%callee_start", << Blk(<<0>>, <<1, 2, 3>>) >>,
         << TraceStart(4), Isub(1, 0, 0), Return(<<1>>) >>)

\* its caller ends the trace after the call
FnCallerEnd ==
    Func("%caller_end", << Blk(<<>>, <<1, 2, 3, 4>>) >>,
         << Iconst(0, 1), Call(<<1>>, "%callee_start", <<0>>), TraceEnd(4), Return(<<1>>) >>)

\* a traced region with a call inside (the shape of the reconstruct_jump test)
FnMul3 ==
    Func("%mul3", << Blk(<<20>>, <<1, 2, 3, 4, 5>>) >>,
         << TraceStart(5), Iadd(21, 20, 20), Call(<<22>>, "%add", <<20, 21>>),
            TraceEnd(5), Return(<<22>>) >>)

\* a loop: counts v0 down to zero through icmp_imm, brnz, irsub_imm and jump
FnCount ==
    Func("%count", << Blk(<<0>>, <<1, 2, 3, 4>>), Blk(<<3>>, <<5>>) >>,
         << IcmpImm(1, "eq", 0, 0), Brnz(<<1, 0>>, 2), IrsubImm(2, 0, 1),
            Jump(1, <<2>>), Return(<<3>>) >>)

\* a block with no terminator
FnFallOff ==
    Func("%falloff", << Blk(<<>>, <<1>>) >>, << Nop >>)

\* calls %falloff, an unknown function, and branches on an integer
FnCallsFallOff ==
    Func("%calls_falloff", << Blk(<<0>>, <<1, 2, 3, 4, 5>>), Blk(<<>>, <<6, 7>>), Blk(<<4>>, <<8>>) >>,
         << IcmpImm(1, "ule", 0, 0), Brnz(<<1>>, 2), IcmpImm(2, "eq", 0, 1),
            Brnz(<<2, 0>>, 3), Call(<<>>, "%missing", <<>>),
            Call(<<>>, "%falloff", <<>>), Return(<<>>),
            Brnz(<<4, 4>>, 3) >>)

\* the function of the reconstruct_single_block test: trace_start and no trace_end
FnOpen ==
    Func("%open", << Blk(<<43, 44>>, <<1, 2, 3, 4>>) >>,
         << TraceStart(99), Iadd(42, 43, 44), Isub(45, 42, 43), Return(<<45>>) >>)

\* blocks joined by fallthrough, ending a trace that some earlier call left open
FnEndOnly ==
    Func("%end_only", << Blk(<<>>, <<1>>), Blk(<<>>, <<2, 3>>) >>,
         << Fallthrough(2, <<>>), TraceEnd(7), Return(<<>>) >>)

\* a traced region that branches: on v0 = 0 the brnz is taken and block1 ends the trace
FnGuard ==
    Func("%guard", << Blk(<<0>>, <<1, 2, 3, 4, 5, 6>>), Blk(<<3>>, <<7, 8, 9>>) >>,
         << TraceStart(8), IcmpImm(1, "eq", 0, 0), Brnz(<<1, 0>>, 2), IrsubImm(2, 0, 1),
            TraceEnd(8), Return(<<2>>),
            Iadd(4, 3, 0), TraceEnd(8), Return(<<4>>) >>)

\* a traced region that uses the result of a call it made
FnUse ==
    Func("%use", << Blk(<<0>>, <<1, 2, 3, 4, 5, 6>>) >>,
         << TraceStart(9), Iadd(1, 0, 0), Call(<<2>>, "%add", <<0, 1>>), Isub(3, 2, 0),
            TraceEnd(9), Return(<<3>>) >>)

\* a callee of two blocks joined by a jump without arguments
FnHop ==
    Func("%hop", << Blk(<<5>>, <<1, 2>>), Blk(<<>>, <<3, 4>>) >>,
         << Iadd(0, 5, 5), Jump(2, <<>>), Iadd(1, 0, 0), Return(<<1>>) >>)

\* a traced region that calls %hop
FnCaller ==
    Func("%caller", << Blk(<<0>>, <<1, 2, 3, 4, 5>>) >>,
         << TraceStart(10), Iadd(1, 0, 0), Call(<<2>>, "%hop", <<1>>), TraceEnd(10),
            Return(<<2>>) >>)

\* the function of the reconstruct_multiple_blocks test
FnBlocks ==
    Func("%blocks", << Blk(<<20>>, <<1, 2, 3>>), Blk(<<10, 11>>, <<4, 5>>),
                       Blk(<<0, 1>>, <<6, 7, 8>>) >>,
         << TraceStart(11), Iadd(21, 20, 20), Fallthrough(2, <<20, 21>>),
            Iadd(12, 11, 10), Fallthrough(3, <<10, 12>>),
            Iadd(2, 1, 0), TraceEnd(11), Return(<<>>) >>)

\* The functions of the file the interpreter is driven through.
InterpretedFile ==
    << FnAdd, FnTraced, FnTwo, FnCalleeStart, FnCallerEnd, FnMul3, FnCount,
       FnFallOff, FnCallsFallOff, FnOpen, FnEndOnly >>

\* The functions of the file whose traces are reconstructed.
\* a callee that uses its parameter after a jump
FnSkip ==
    Func("%skip", << Blk(<<5>>, <<1>>), Blk(<<>>, <<2, 3>>) >>,
         << Jump(2, <<>>), Iadd(1, 5, 5), Return(<<1>>) >>)

\* a traced region that calls it on a value computed in the trace
FnVia ==
    Func("%via", << Blk(<<0>>, <<1, 2, 3, 4, 5>>) >>,
         << TraceStart(12), Iadd(1, 0, 0), Call(<<2>>, "%skip", <<1>>), TraceEnd(12), Return(<<2>>) >>)

ReconstructedFile == << FnGuard, FnUse, FnHop, FnCaller, FnBlocks, FnSkip, FnVia >>

\* a brnz on the parameter, with one destination argument and with none
FnBr1 ==
    Func("%br1", << Blk(<<0>>, <<1, 2, 3>>), Blk(<<2>>, <<4>>) >>,
         << Iconst(1, 7), Brnz(<<0, 1>>, 2), Return(<<0>>), Return(<<2>>) >>)

FnBr0 ==
    Func("%br0", << Blk(<<0>>, <<1, 2>>), Blk(<<>>, <<3>>) >>,
         << Brnz(<<0>>, 2), Return(<<>>), Return(<<0>>) >>)

\* irsub_imm and icmp_imm on the parameter
FnRsub ==
    Func("%rsub", << Blk(<<0>>, <<1, 2>>) >>,
         << IrsubImm(1, 0, 1), Return(<<1>>) >>)

FnUle ==
    Func("%ule", << Blk(<<0>>, <<1, 2>>) >>,
         << IcmpImm(1, "ule", 0, 1), Return(<<1>>) >>)

FnEq ==
    Func("%eq", << Blk(<<0>>, <<1, 2>>) >>,
         << IcmpImm(1, "eq", 0, 1), Return(<<1>>) >>)

SteppedFile == << FnBr1, FnBr0, FnRsub, FnUle, FnEq >>

\* a caller that goes on after %callee_start returned with its trace active, and
\* ends that trace later
FnCallerLate ==
    Func("%caller_late", << Blk(<<>>, <<1, 2, 3, 4, 5>>) >>,
         << Iconst(0, 1), Call(<<1>>, "%callee_start", <<0>>), Iadd(2, 1, 1), TraceEnd(4),
            Return(<<2>>) >>)

\* a traced region whose first instruction is a call on the function's parameter
FnFresh ==
    Func("%fresh", << Blk(<<0>>, <<1, 2, 3, 4>>) >>,
         << TraceStart(13), Call(<<1>>, "%add", <<0, 0>>), TraceEnd(13), Return(<<1>>) >>)

\* a traced region with two free inputs of different types: v0 is an i32 and v1,
\* computed before the trace_start, a b1
FnMixed ==
    Func("%mixed", << Blk(<<0>>, <<1, 2, 3, 4, 5, 6>>), Blk(<<3>>, <<7, 8>>) >>,
         << IcmpImm(1, "eq", 0, 0), TraceStart(14), Iadd(2, 0, 0), Brnz(<<1, 2>>, 2),
            TraceEnd(14), Return(<<2>>),
            TraceEnd(14), Return(<<3>>) >>)

FurtherFile == << FnCallerLate, FnFresh, FnMixed >>

Env == InterpretedFile \o ReconstructedFile \o SteppedFile \o FurtherFile

FuncRefs == DOMAIN Env

\* Environment::get_func_ref_by_name
get_func_ref_by_name(name) ==
    IF \E i \in FuncRefs : Env[i].name = name
    THEN Some(CHOOSE i \in FuncRefs : Env[i].name = name)
    ELSE None

SeqRange(s) == {s[i] : i \in DOMAIN s}

\* Every ValueRef of a function's data-flow graph.
ValueRefsOf(f) ==
    UNION ({SeqRange(f.blocks[b].params) : b \in DOMAIN f.blocks}
           \cup {SeqRange(f.dfg[i].res) \cup SeqRange(f.dfg[i].args) : i \in DOMAIN f.dfg})

\* DataFlowGraph::value_type: the results of icmp_imm and bconst are b1, every other
\* value of the file is an i32
value_type(f, v) ==
    IF \E i \in DOMAIN f.dfg : f.dfg[i].op \in {"icmp_imm", "bconst"} /\ v \in SeqRange(f.dfg[i].res)
    THEN "b1" ELSE "i32"

\* The argument vectors the driver calls a function with.
ArgValues == {IntV(n) : n \in 0..MaxArg}
ArgVectors(n) == [1..n -> ArgValues]

\* The names the driver calls: every function of the file, and one that is not in it.
CallNames == {InterpretedFile[i].name : i \in DOMAIN InterpretedFile} \cup {"%nowhere"}

\* The names the driver calls when traces are reconstructed.
RecNames ==
    {"%guard", "%use", "%caller", "%blocks", "%traced", "%two", "%falloff", "%via",
     "%caller_late", "%fresh", "%mixed"}

\* the functions stepped on arguments of every kind: negative, zero and positive
\* integers and both booleans
StepNames == {SteppedFile[i].name : i \in DOMAIN SteppedFile}
StepValues == {IntV(n) : n \in (0 - 1)..MaxArg} \cup {BoolV(TRUE), BoolV(FALSE)}

(***************************************************************************)
(* State                                                                   *)
(***************************************************************************)

VARIABLES
    stack,      \* the Frames of the calls in progress, innermost last
    trace,      \* Interpreter::trace : Trace
    traces,     \* Interpreter::traces : TraceStore, id -> compiled function
    status,     \* "idle" (no call in progress), "running", "panic"
    calls,      \* the top-level calls made so far, with their results
    last        \* the instruction stepped last, whether tracing was on, and the
                \* instructions stepped since the last trace_start

VARIABLES
    seen        \* for every entry of trace.observed, the values the step had at hand

ivars == <<stack, trace, traces, status, calls, last, seen>>

\* no trace_start was stepped yet
NotStarted == [open |-> 0, insts |-> <<>>, func_ref |-> 0, first |-> 0, ended |-> 0]

VARIABLES
    func,       \* the ir::Function fold_constants rewrites in place
    worklist,   \* fold_constants: worklist : Vec<ir::Value>
    values,     \* fold_constants: values : Values
    uses,       \* fold_constants: uses : SsaNameUses
    inputs,     \* fold_constants: inputs : PhiValues
    cur,        \* the value popped last and the position in its uses, or None
    phase,      \* "idle" outside fold_constants, "loop" inside its worklist loop
    runs,       \* the number of runs of fold_constants that returned
    orig,       \* the function as it was before the first run
    once,       \* the function as the first run left it
    sets,       \* the calls of Values::set of the current run: name, old and new value
    pushes      \* the names pushed on the worklist in the current run, in order

fvars == <<func, worklist, values, uses, inputs, cur, phase, runs, orig, once, sets, pushes>>

VARIABLES
    operation,  \* the operation of LatticeValue that was applied, "none" before
    operands,   \* the lattice values it is applied to: [x, y, z]
    outcome     \* what the applications returned, in the order of the operation's rule

lvars == <<operation, operands, outcome>>

VARIABLES
    command,    \* the RunCommand at hand
    invoked,    \* the calls of invoke_fn made by RunCommand::run, with what they returned
    ran         \* what RunCommand::run returned, None before it is called

rvars == <<command, invoked, ran>>

VARIABLES
    devices,            \* WasiParallelContext::devices, in insertion order
    buffers,            \* WasiParallelContext::buffers, id -> WasmMemoryBuffer
    device_for_buffers, \* WasiParallelContext::device_for_buffers
    pool,               \* the parallel for in progress: its jobs and the pool's workers
    kernels,            \* the invocations of the kernel made so far
    answer,             \* what the call of the context made last returned
    requests            \* the number of calls made on the context

wvars == <<devices, buffers, device_for_buffers, pool, kernels, answer, requests>>

vars == <<ivars, fvars, lvars, rvars, wvars>>

(***************************************************************************)
(* Trace recorder (tracing.rs)                                             *)
(***************************************************************************)

StartInFunction(f) == [kind |-> "StartInFunction", ref |-> f]
EnterFunction(f) == [kind |-> "EnterFunction", ref |-> f]
ExitFunction == [kind |-> "ExitFunction", ref |-> 0]
Instruction(i) == [kind |-> "Instruction", ref |-> i]

\* Trace::default
TraceDefault == [tracing |-> None, observed |-> <<>>]

\* Trace::start, after its assertion that no trace is active
start(t, id, func_ref) ==
    [tracing |-> Some(id), observed |-> Append(t.observed, StartInFunction(func_ref))]

\* Trace::end: take() the active id (the caller reads it before)
end(t) == [t EXCEPT !.tracing = None]

\* observe without its test of the active id
observe_always(t, rec) == [t EXCEPT !.observed = Append(@, rec)]

\* Trace::observe
observe(t, rec) ==
    IF t.tracing # None THEN [t EXCEPT !.observed = Append(@, rec)] ELSE t

\* remove_last without the pop
remove_last_kept(t) == t

\* Trace::remove_last: Vec::pop, nothing to do on an empty Vec
remove_last(t) ==
    IF t.observed = <<>> THEN t
    ELSE [t EXCEPT !.observed = SubSeq(@, 1, Len(@) - 1)]

\* Trace::reconstruct: an iterator at the start of a copy of the records
reconstruct(t) == [cursor |-> 0, stack |-> <<>>, trace |-> t.observed]

\* what TraceIterator::next returns, with the iterator it leaves: an item, None at the
\* end of the records, or a panic
Yield(it, item, panic) == [it |-> it, item |-> item, panic |-> panic]

\* ReconstructedInstruction: the InstructionData and the results of `i` in the
\* function on top of the stack; indexing the dfg with an Inst it does not hold panics
Resolve(it, func_ref, i) ==
    IF i \in DOMAIN Env[func_ref].dfg
    THEN Yield(it, Some([results |-> Env[func_ref].dfg[i].res,
                         instruction |-> Env[func_ref].dfg[i]]), FALSE)
    ELSE Yield(it, None, TRUE)

\* one record of the loop of next, with the cursor already moved on
RECURSIVE TraceIterator_next(_)
TraceIterator_record(it, rec) ==
    IF rec.kind \in {"StartInFunction", "EnterFunction"}
    THEN TraceIterator_next([it EXCEPT !.stack = Append(@, rec.ref)])
    ELSE IF rec.kind = "ExitFunction"
    THEN TraceIterator_next([it EXCEPT !.stack = IF @ = <<>> THEN @ ELSE SubSeq(@, 1, Len(@) - 1)])
    ELSE IF it.stack = <<>>
    THEN Yield(it, None, TRUE)   \* expect("the stack to contain a valid func ref")
    ELSE Resolve(it, it.stack[Len(it.stack)], rec.ref)

\* <TraceIterator as Iterator>::next
TraceIterator_next(it) ==
    IF it.cursor < Len(it.trace)
    THEN TraceIterator_record([it EXCEPT !.cursor = @ + 1], it.trace[it.cursor + 1])
    ELSE Yield(it, None, FALSE)

\* Iterator::collect: next until it returns None
RECURSIVE collect(_, _)
Collected(y, acc) ==
    IF y.panic THEN [items |-> acc, panic |-> TRUE]
    ELSE IF y.item = None THEN [items |-> acc, panic |-> FALSE]
    ELSE collect(y.it, Append(acc, y.item[1]))

collect(it, acc) == Collected(TraceIterator_next(it), acc)

(***************************************************************************)
(* TraceStore (tracing.rs)                                                 *)
(***************************************************************************)

\* TraceStore::contains
contains(store, id) == id \in DOMAIN store

\* TraceStore::insert: HashMap::insert, replacing any earlier entry
insert(store, id, code) ==
    [x \in DOMAIN store \cup {id} |-> IF x = id THEN code ELSE store[x]]

\* FunctionRunner::execute: execute0, execute1 and every other arity are unimplemented!()
FunctionRunner_execute(code, args) == "unimplemented"

\* TraceStore::execute
execute(store, id, args) == FunctionRunner_execute(store[id], args)

(***************************************************************************)
(* FunctionReconstructor (tracing.rs)                                      *)
(***************************************************************************)

\* Renumberings::new
RenumberingsNew == <<>>

\* Renumberings::renumber: HashMap::insert
renumber(r, old, new) ==
    [x \in DOMAIN r \cup {old} |-> IF x = old THEN new ELSE r[x]]

MinOf(a, b) == IF a < b THEN a ELSE b

\* renumber(olds[k], news[k]) for every k of the zip, in order
renumber_zip(r, olds, news) ==
    LET n == MinOf(Len(olds), Len(news))
        D == {olds[k] : k \in 1..n}
        lastk(x) == CHOOSE k \in 1..n : olds[k] = x /\ \A j \in 1..n : olds[j] = x => j <= k
    IN  [x \in DOMAIN r \cup D |-> IF x \in D THEN news[lastk(x)] ELSE r[x]]

\* A StackFrame: (FuncRef, Renumberings, CallResults)
StackFrame(func_ref, renumbering, results) ==
    [func_ref |-> func_ref, renumbering |-> renumbering, results |-> results]

\* FunctionReconstructor::new, with the function under construction
ReconstructorNew ==
    [inputs |-> RenumberingsNew, stack |-> <<>>, insts |-> <<>>, params |-> <<>>,
     types |-> <<>>, next |-> 0, panic |-> FALSE]

Panicked(st) == [st EXCEPT !.panic = TRUE]

\* FunctionReconstructor::setup
setup(st, func_ref) ==
    [st EXCEPT !.stack = Append(@, StackFrame(func_ref, RenumberingsNew, <<>>))]

PopFrame(st) == [st EXCEPT !.stack = SubSeq(@, 1, Len(@) - 1)]

\* arguments that keep their old names
rewrite_arguments_kept(args, k, renumbering, acc) == [acc EXCEPT !.new_args = args]

\* The arguments of a copied instruction, rewritten one after the other: found in
\* the current renumbering, else in the inputs, else lifted to a new block parameter.
RECURSIVE rewrite_arguments(_, _, _, _)
rewrite_arguments(args, k, renumbering, acc) ==
    IF k > Len(args) THEN acc
    ELSE LET a == args[k] IN
         IF a \in DOMAIN renumbering
         THEN rewrite_arguments(args, k + 1, renumbering,
                                [acc EXCEPT !.new_args = Append(@, renumbering[a])])
         ELSE IF a \in DOMAIN acc.inputs
         THEN rewrite_arguments(args, k + 1, renumbering,
                                [acc EXCEPT !.new_args = Append(@, acc.inputs[a])])
         ELSE rewrite_arguments(args, k + 1, renumbering,
                                [inputs |-> renumber(acc.inputs, a, acc.next),
                                 params |-> Append(acc.params, acc.next),
                                 types |-> Append(acc.types, value_type(Env[acc.func_ref], a)),
                                 func_ref |-> acc.func_ref,
                                 next |-> acc.next + 1,
                                 new_args |-> Append(acc.new_args, acc.next)])

\* Whether a call or jump argument has a new name, and the name
found(st, current, a) == a \in DOMAIN current \/ a \in DOMAIN st.inputs
renumbered(st, current, a) == IF a \in DOMAIN current THEN current[a] ELSE st.inputs[a]

\* The Call arm of reconstruct_instruction
reconstruct_call(st, current, callee, caller_args, callee_args, caller_results) ==
    IF \E k \in 1..MinOf(Len(caller_args), Len(callee_args)) :
           \/ ~found(st, current, caller_args[k])
           \/ caller_args[k] \notin DOMAIN current /\ Len(st.stack) # 1
    THEN Panicked(st)
    ELSE [st EXCEPT !.stack = Append(@,
             StackFrame(callee,
                        renumber_zip(RenumberingsNew, callee_args,
                                     [k \in 1..MinOf(Len(caller_args), Len(callee_args)) |->
                                         renumbered(st, current, caller_args[k])]),
                        caller_results))]

\* The Jump arm of reconstruct_instruction
reconstruct_jump(st, top, caller_args, destination_args) ==
    IF \E k \in 1..MinOf(Len(caller_args), Len(destination_args)) :
           ~found(st, top.renumbering, caller_args[k])
    THEN Panicked(PopFrame(st))
    ELSE [st EXCEPT !.stack[Len(st.stack)] =
             StackFrame(top.func_ref,
                        renumber_zip(RenumberingsNew, destination_args,
                                     [k \in 1..MinOf(Len(caller_args), Len(destination_args)) |->
                                         renumbered(st, top.renumbering, caller_args[k])]),
                        top.results)]

reconstruct_callee(st, current, callee, inst_data) ==
    IF callee = None THEN Panicked(st)
    ELSE reconstruct_call(st, current, callee[1], inst_data.args,
                          Env[callee[1]].blocks[1].params, inst_data.res)

\* reconstruct_instruction on the instruction data of the function on top of the stack
reconstruct_data(st, top, old_func, inst_data, current) ==
    CASE inst_data.op = "call" ->
            reconstruct_callee(st, current, get_func_ref_by_name(inst_data.fn), inst_data)
      [] inst_data.op \in {"jump", "fallthrough"} ->
            reconstruct_jump(st, top, inst_data.args, old_func.blocks[inst_data.dest].params)
      [] inst_data.op = "return" ->
            \* the popped frame's renumbering gets the call results and is dropped
            PopFrame(st)
      [] OTHER ->
            LET nres == Len(inst_data.res)
                new_results == [k \in 1..nres |-> st.next + k - 1]
                with_results == renumber_zip(current, inst_data.res, new_results)
                acc == rewrite_arguments(inst_data.args, 1, with_results,
                                         [inputs |-> st.inputs, params |-> st.params,
                                          types |-> st.types, func_ref |-> top.func_ref,
                                          next |-> st.next + nres, new_args |-> <<>>])
                new_inst == [inst_data EXCEPT !.res = new_results, !.args = acc.new_args]
            IN  [st EXCEPT !.stack[Len(st.stack)].renumbering = with_results,
                           !.inputs = acc.inputs,
                           !.params = acc.params,
                           !.types = acc.types,
                           !.next = acc.next,
                           !.insts = Append(@, new_inst)]

reconstruct_in(st, top, inst) ==
    reconstruct_data(st, top, Env[top.func_ref], Env[top.func_ref].dfg[inst], top.renumbering)

\* FunctionReconstructor::reconstruct_instruction
reconstruct_instruction(st, inst) ==
    IF st.stack = <<>> THEN Panicked(st)  \* old_func: "there must be at least one stack frame pushed"
    ELSE reconstruct_in(st, st.stack[Len(st.stack)], inst)

RECURSIVE build_loop(_, _, _)
build_loop(observed, k, st) ==
    IF st.panic \/ k > Len(observed) THEN st
    ELSE LET i == observed[k] IN
         CASE i.kind = "StartInFunction" -> Panicked(st)
           [] i.kind \in {"EnterFunction", "ExitFunction"} -> build_loop(observed, k + 1, st)
           [] i.kind = "Instruction" ->
                build_loop(observed, k + 1, reconstruct_instruction(st, i.ref))
           [] OTHER -> build_loop(observed, k + 1, st)

\* FunctionReconstructor::build: the reconstructed function (entry block parameters
\* and instructions), or a panic
build_return(st) ==
    IF st.panic THEN st ELSE [st EXCEPT !.insts = Append(@, Return(<<>>))]

build(t) ==
    IF t.observed = <<>> \/ t.observed[1].kind # "StartInFunction"
    THEN Panicked(ReconstructorNew)
    ELSE build_return(build_loop(t.observed, 2, setup(ReconstructorNew, t.observed[1].ref)))

\* The orders in which a HashMap may hand out its keys: every one
IterationOrders(m) ==
    {o \in [1..Cardinality(DOMAIN m) -> DOMAIN m] : \A j, k \in DOMAIN o : o[j] = o[k] => j = k}

\* new_func.dfg.value_type of a parameter of the entry block
param_type(st, new_arg) == st.types[CHOOSE k \in DOMAIN st.params : st.params[k] = new_arg]

\* The end of build: one parameter of the signature for every entry of `inputs`, in
\* the order `inputs.iter()` hands them out
signature(st, order) == [k \in DOMAIN order |-> param_type(st, st.inputs[order[k]])]

\* The Function that build returns
ReconstructedFunction(st) == [params |-> st.params, insts |-> st.insts]

(***************************************************************************)
(* Frame                                                                   *)
(***************************************************************************)

\* Frame::new(func_ref, function).with_parameters(parameters, arguments)
with_parameters(func_ref, refs, parameters, arguments) ==
    [func_ref |-> func_ref,
     vals |-> [x \in refs |->
                  IF \E k \in DOMAIN parameters : parameters[k] = x /\ k \in DOMAIN arguments
                  THEN arguments[CHOOSE k \in DOMAIN parameters : parameters[k] = x]
                  ELSE Unset],
     block |-> 1,
     pos |-> 1]

FrameNew(func_ref, arguments) ==
    with_parameters(func_ref, ValueRefsOf(Env[func_ref]), Env[func_ref].blocks[1].params, arguments)

\* Frame::get_all / Frame::get_list
get_all(frame, names) == [k \in DOMAIN names |-> frame.vals[names[k]]]

\* A Frame::get of a name that was never set
Unbound(frame, names) == \E k \in DOMAIN names : frame.vals[names[k]] = Unset

\* Frame::set
set(frame, name, value) == [frame EXCEPT !.vals[name] = value]

\* Frame::set_all
set_all(frame, names, vs) ==
    [frame EXCEPT !.vals = [x \in DOMAIN @ |->
        IF \E k \in DOMAIN names : names[k] = x
        THEN vs[CHOOSE k \in DOMAIN names : names[k] = x /\ \A j \in DOMAIN names : names[j] = x => j <= k]
        ELSE @[x]]]

\* Frame::rename: on a block transfer the destination's parameters take the values
\* of the branch arguments
rename(frame, old_names, new_names) ==
    set_all(frame, new_names, get_all(frame, old_names))

(***************************************************************************)
(* Interpreter::inst                                                       *)
(***************************************************************************)

\* ControlFlow, Trap, and the two ways a step leaves the match otherwise: a panic,
\* and a call whose callee has yet to run.
CF(kind, block, names, vs, trap, ref) ==
    [kind |-> kind, block |-> block, names |-> names, values |-> vs, trap |-> trap, ref |-> ref]

Continue == CF("Continue", 0, <<>>, <<>>, "", 0)
ContinueAt(block, names) == CF("ContinueAt", block, names, <<>>, "", 0)
ControlFlowReturn(vs) == CF("Return", 0, <<>>, vs, "", 0)
Trap(trap, ref) == CF("Trap", 0, <<>>, <<>>, trap, ref)
Panic(why) == CF("Panic", 0, <<>>, <<>>, why, 0)
Calling(func_ref, vs) == CF("Call", 0, <<>>, vs, "", func_ref)

\* What one call of Interpreter::inst leaves behind.
Out(cf, frame, t, store) == [cf |-> cf, frame |-> frame, trace |-> t, traces |-> store]

\* std::ops::Add / Sub on Value: only Int with Int is implemented
Add(a, b) == IntV(a.v + b.v)
Sub(a, b) == IntV(a.v - b.v)
Ints(a, b) == a.t = "int" /\ b.t = "int"

\* Interpreter::binary
binary(frame, op, a, b, r) ==
    set(frame, r, IF op = "add" THEN Add(frame.vals[a], frame.vals[b])
                  ELSE Sub(frame.vals[a], frame.vals[b]))

\* Interpreter::binary_imm
binary_imm(frame, op, a, b, r) ==
    set(frame, r, IF op = "add" THEN Add(frame.vals[a], b) ELSE Sub(frame.vals[a], b))

\* Interpreter::iconst
iconst(frame, imm, r) == set(frame, r, IntV(imm))

\* Interpreter::bconst
bconst(frame, imm, r) == set(frame, r, BoolV(imm = 1))

\* The Brnz arm
inst_brnz(frame, data, t, store) ==
    LET first == data.args[1]
        args == Tail(data.args)
        c == frame.vals[first]
    IN  IF c = Unset THEN Out(Panic("unbound value"), frame, t, store)
        ELSE IF c = BoolV(TRUE) THEN Out(ContinueAt(data.dest, args), frame, t, store)
        ELSE IF c = BoolV(FALSE) THEN Out(Continue, frame, t, store)
        ELSE IF args = <<>> THEN Out(Panic("index out of bounds"), frame, t, store)
        ELSE Out(Trap("InvalidType", args[1]), frame, t, store)

\* The Call arm, up to the entry of the callee
call_callee(frame, data, t, store, callee) ==
    IF Unbound(frame, data.args) THEN Out(Panic("unbound value"), frame, t, store)
    ELSE IF callee = None THEN Out(Trap("InvalidFunctionName", 0), frame, t, store)
    ELSE Out(Calling(callee[1], get_all(frame, data.args)), frame, t, store)

inst_call(frame, data, t, store) ==
    call_callee(frame, data, t, store, get_func_ref_by_name(data.fn))

\* The IcmpImm arm
inst_icmp_imm(frame, data, t, store) ==
    LET arg == frame.vals[data.args[1]] IN
    IF arg = Unset THEN Out(Panic("unbound value"), frame, t, store)
    ELSE IF arg.t # "int" THEN Out(Trap("InvalidType", data.args[1]), frame, t, store)
    ELSE IF data.cond = "ule"
         THEN Out(Continue, set(frame, data.res[1], BoolV(arg.v <= data.imm)), t, store)
    ELSE IF data.cond = "eq"
         THEN Out(Continue, set(frame, data.res[1], BoolV(arg.v = data.imm)), t, store)
    ELSE Out(Panic("unimplemented"), frame, t, store)

\* a TraceStart arm that starts a trace whether or not the id is stored
inst_trace_start_always(frame, data, t, store) ==
    IF t.tracing # None THEN Out(Panic("should not be currently tracing"), frame, t, store)
    ELSE Out(Continue, frame, start(t, data.imm, frame.func_ref), store)

\* The TraceStart arm
inst_trace_start(frame, data, t, store) ==
    LET id == data.imm IN
    IF contains(store, id)
    THEN IF Unbound(frame, data.args) THEN Out(Panic("unbound value"), frame, t, store)
         ELSE IF execute(store, id, get_all(frame, data.args)) = "unimplemented"
              THEN Out(Panic("unimplemented"), frame, t, store)
              ELSE Out(Continue, frame, t, store)  \* the result, Ok or Err, is dropped
    ELSE IF t.tracing # None THEN Out(Panic("should not be currently tracing"), frame, t, store)
         ELSE Out(Continue, frame, start(t, id, frame.func_ref), store)

\* a TraceEnd arm that stores the function whatever compile returned
trace_end_compile_unchecked(frame, id, t2, reconstructor, store, compiled) ==
    IF reconstructor.panic THEN Out(Panic("reconstruction"), frame, t2, store)
    ELSE Out(Continue, frame, t2, insert(store, id, ReconstructedFunction(reconstructor)))

\* The TraceEnd arm; compiled is whether FunctionRunner::compile returns Ok
trace_end_compile(frame, id, t2, reconstructor, store, compiled) ==
    IF reconstructor.panic THEN Out(Panic("reconstruction"), frame, t2, store)
    ELSE IF ~compiled THEN Out(Trap("TraceError(CompilationFailed)", 0), frame, t2, store)
    ELSE Out(Continue, frame, t2, insert(store, id, ReconstructedFunction(reconstructor)))

inst_trace_end(frame, data, t, store, compiled) ==
    IF t.tracing = None
    THEN Out(Panic("tracing should have been started"), frame, t, store)
    ELSE trace_end_compile(frame, t.tracing[1], remove_last(end(t)), build(remove_last(end(t))),
                           store, compiled)

\* The match of Interpreter::inst on the instruction data
inst_match(frame, data, t, store, compiled) ==
    CASE data.op \in {"iadd", "isub"} ->
            IF Unbound(frame, data.args) THEN Out(Panic("unbound value"), frame, t, store)
            ELSE IF ~Ints(frame.vals[data.args[1]], frame.vals[data.args[2]])
                 THEN Out(Panic("unimplemented"), frame, t, store)
            ELSE Out(Continue,
                     binary(frame, IF data.op = "iadd" THEN "add" ELSE "sub",
                            data.args[1], data.args[2], data.res[1]),
                     t, store)
      [] data.op = "irsub_imm" ->
            IF Unbound(frame, data.args) THEN Out(Panic("unbound value"), frame, t, store)
            ELSE IF frame.vals[data.args[1]].t # "int"
                 THEN Out(Panic("unimplemented"), frame, t, store)
            ELSE Out(Continue, binary_imm(frame, "sub", data.args[1], IntV(data.imm), data.res[1]),
                     t, store)
      [] data.op = "brnz" -> inst_brnz(frame, data, t, store)
      [] data.op = "call" -> inst_call(frame, data, t, store)
      [] data.op \in {"jump", "fallthrough"} ->
            Out(ContinueAt(data.dest, data.args), frame, t, store)
      [] data.op = "icmp_imm" -> inst_icmp_imm(frame, data, t, store)
      [] data.op = "return" ->
            IF Unbound(frame, data.args) THEN Out(Panic("unbound value"), frame, t, store)
            ELSE Out(ControlFlowReturn(get_all(frame, data.args)), frame, t, store)
      [] data.op = "trace_start" -> inst_trace_start(frame, data, t, store)
      [] data.op = "nop" -> Out(Continue, frame, t, store)
      [] data.op = "iconst" -> Out(Continue, iconst(frame, data.imm, data.res[1]), t, store)
      [] data.op = "trace_end" -> inst_trace_end(frame, data, t, store, compiled)
      [] data.op = "bconst" -> Out(Continue, bconst(frame, data.imm, data.res[1]), t, store)
      [] OTHER -> Out(Panic("unimplemented"), frame, t, store)

\* Interpreter::inst
inst(frame, i, t0, store, compiled) ==
    inst_match(frame, Env[frame.func_ref].dfg[i], observe(t0, Instruction(i)), store, compiled)

(***************************************************************************)
(* Interpreter::block, call_by_index, call_by_name                         *)
(***************************************************************************)

NoResult == CF("None", 0, <<>>, <<>>, "", 0)

CurFrame == stack[Len(stack)]
CurFunction == Env[CurFrame.func_ref]
CurInsts == CurFunction.blocks[CurFrame.block].insts
AtInst == status = "running" /\ CurFrame.pos <= Len(CurInsts)
CurInst == CurInsts[CurFrame.pos]
CurData == CurFunction.dfg[CurInst]

\* the loop of Interpreter::block ending in Ok(Continue)
block_exhausted_continue == Continue

\* Interpreter::block, after its loop ran out of instructions
block_exhausted == Trap("Unreachable", 0)

WithTop(stk, frame) == [stk EXCEPT ![Len(stk)] = frame]
Pop(stk) == SubSeq(stk, 1, Len(stk) - 1)
Advance(frame) == [frame EXCEPT !.pos = @ + 1]

Machine(stk, t, st, res) == [stack |-> stk, trace |-> t, status |-> st, result |-> res]

\* What happens to the value r that Interpreter::block returned for the innermost
\* call: call_by_index observes ExitFunction and returns r; a top-level caller gets
\* it; the Call arm of the calling frame saves a Return's values and continues,
\* passes a Trap on with `?`, and turns anything else into InvalidControlFlow.
InstAt(frame) == Env[frame.func_ref].dfg[Env[frame.func_ref].blocks[frame.block].insts[frame.pos]]

RECURSIVE unwind(_, _, _)
\* a Call arm that reports a callee's Trap as InvalidControlFlow
returned_to_wrapped(rest, caller, call, t1, r) ==
    IF r.kind = "Return"
    THEN IF Len(call.res) # Len(r.values)
         THEN Machine(rest, t1, "panic", Panic("assert_eq"))
         ELSE Machine(WithTop(rest, Advance(set_all(caller, call.res, r.values))),
                      t1, "running", NoResult)
    ELSE unwind(rest, t1, Trap("InvalidControlFlow", 0))

returned_to(rest, caller, call, t1, r) ==
    IF r.kind = "Return"
    THEN IF Len(call.res) # Len(r.values)
         THEN Machine(rest, t1, "panic", Panic("assert_eq"))
         ELSE Machine(WithTop(rest, Advance(set_all(caller, call.res, r.values))),
                      t1, "running", NoResult)
    ELSE IF r.kind = "Trap" THEN unwind(rest, t1, r)
    ELSE unwind(rest, t1, Trap("InvalidControlFlow", 0))

exited(rest, t1, r) ==
    IF rest = <<>> THEN Machine(<<>>, t1, "idle", r)
    ELSE returned_to(rest, rest[Len(rest)], InstAt(rest[Len(rest)]), t1, r)

unwind(stk, t, r) == exited(Pop(stk), observe(t, ExitFunction), r)

\* The loop of Interpreter::block and the callers above it, applied to what
\* Interpreter::inst left behind.
after_inst(stk, out) ==
    LET k == out.cf.kind IN
    CASE k = "Continue" ->
            Machine(WithTop(stk, Advance(out.frame)), out.trace, "running", NoResult)
      [] k = "ContinueAt" ->
            Machine(WithTop(stk, [rename(out.frame, out.cf.names,
                                         Env[out.frame.func_ref].blocks[out.cf.block].params)
                                  EXCEPT !.block = out.cf.block, !.pos = 1]),
                    out.trace, "running", NoResult)
      [] k = "Call" ->
            Machine(Append(WithTop(stk, out.frame), FrameNew(out.cf.ref, out.cf.values)),
                    observe(out.trace, EnterFunction(out.cf.ref)), "running", NoResult)
      [] k = "Panic" ->
            Machine(WithTop(stk, out.frame), out.trace, "panic", out.cf)
      [] OTHER ->
            unwind(WithTop(stk, out.frame), out.trace, out.cf)

\* What was at hand when an entry of trace.observed was recorded: for an Instruction
\* its function, the values of its arguments before the step and of its results after.
Blank == [func_ref |-> 0, args |-> <<>>, res |-> <<>>]

AtHand(frame, data, after) ==
    [func_ref |-> frame.func_ref,
     args |-> get_all(frame, data.args),
     res |-> IF after = None THEN [k \in DOMAIN data.res |-> Unset]
             ELSE get_all(after[1], data.res)]

Seen(old, observed, entry) ==
    [j \in DOMAIN observed |->
        IF j <= Len(old) THEN old[j]
        ELSE IF observed[j].kind = "Instruction" THEN entry
        ELSE Blank]

\* The instructions stepped after the trace_start stepped last, up to its trace_end.
Since(op) ==
    IF op = "trace_start"
    THEN [open |-> 1, insts |-> <<>>, func_ref |-> CurFrame.func_ref,
          first |-> IF trace.observed = <<>> THEN 1 ELSE 0, ended |-> 0]
    ELSE IF op = "trace_end"
    THEN [last.since EXCEPT !.open = 0, !.ended = IF trace.tracing # None THEN 1 ELSE 0]
    ELSE IF last.since.open = 1
    THEN [last.since EXCEPT
              !.insts = Append(@, [func_ref |-> CurFrame.func_ref, inst |-> CurInst])]
    ELSE last.since

SetResult(res) ==
    IF res = NoResult THEN calls
    ELSE [calls EXCEPT ![Len(calls)].result = res]

Becomes(m, store, op) ==
    /\ stack' = m.stack
    /\ trace' = m.trace
    /\ status' = m.status
    /\ calls' = SetResult(m.result)
    /\ traces' = store
    /\ last' = [func_ref |-> CurFrame.func_ref, inst |-> CurInst, op |-> op,
                tracing |-> trace.tracing, since |-> Since(op)]
    /\ seen' = Seen(seen, m.trace.observed,
                    AtHand(CurFrame, CurData,
                           IF Len(m.stack) >= Len(stack) THEN Some(m.stack[Len(stack)]) ELSE None))
    /\ UNCHANGED <<fvars, lvars, rvars, wvars>>

Stepped(out) == Becomes(after_inst(stack, out), out.traces, CurData.op)

\* One step of the interpreter: Interpreter::inst on the current instruction, then
\* the loop of Interpreter::block.
Perform ==
    \E compiled \in IF CurData.op = "trace_end" THEN BOOLEAN ELSE {TRUE} :
        Stepped(inst(CurFrame, CurInst, trace, traces, compiled))

StepBinary ==
    /\ AtInst /\ CurData.op \in {"iadd", "isub"}
    /\ Perform

StepBinaryImm ==
    /\ AtInst /\ CurData.op = "irsub_imm"
    /\ Perform

StepBranch ==
    /\ AtInst /\ CurData.op = "brnz"
    /\ Perform

StepCall ==
    /\ AtInst /\ CurData.op = "call"
    /\ Perform

StepJump ==
    /\ AtInst /\ CurData.op \in {"jump", "fallthrough"}
    /\ Perform

StepIntCompareImm ==
    /\ AtInst /\ CurData.op = "icmp_imm"
    /\ Perform

StepReturn ==
    /\ AtInst /\ CurData.op = "return"
    /\ Perform

StepTraceStart ==
    /\ AtInst /\ CurData.op = "trace_start"
    /\ Perform

StepNop ==
    /\ AtInst /\ CurData.op = "nop"
    /\ Perform

StepIconst ==
    /\ AtInst /\ CurData.op = "iconst"
    /\ Perform

StepTraceEnd ==
    /\ AtInst /\ CurData.op = "trace_end"
    /\ Perform

StepBconst ==
    /\ AtInst /\ CurData.op = "bconst"
    /\ Perform

Exhausted(m) ==
    /\ stack' = m.stack
    /\ trace' = m.trace
    /\ status' = m.status
    /\ calls' = SetResult(m.result)
    /\ last' = [func_ref |-> CurFrame.func_ref, inst |-> 0, op |-> "block_end",
                tracing |-> trace.tracing, since |-> last.since]
    /\ seen' = Seen(seen, m.trace.observed, Blank)
    /\ UNCHANGED <<traces, fvars, lvars, rvars, wvars>>

\* Interpreter::block falls off the end of its block.
BlockEnd ==
    /\ status = "running"
    /\ CurFrame.pos > Len(CurInsts)
    /\ Exhausted(unwind(stack, trace, block_exhausted))

\* Interpreter::call_by_name, and call_by_index up to the first block
call_by_name(name, args, func_ref) ==
    IF func_ref = None
    THEN /\ calls' = Append(calls, [name |-> name, args |-> args,
                                    result |-> Trap("InvalidFunctionName", 0)])
         /\ UNCHANGED <<stack, trace, status>>
    ELSE /\ calls' = Append(calls, [name |-> name, args |-> args, result |-> NoResult])
         /\ trace' = observe(trace, EnterFunction(func_ref[1]))
         /\ stack' = <<FrameNew(func_ref[1], args)>>
         /\ status' = "running"

\* A top-level Interpreter::call_by_name(name, args).
CallByName(name, args) ==
    /\ status = "idle"
    /\ Len(calls) < MaxCalls
    /\ call_by_name(name, args, get_func_ref_by_name(name))
    /\ seen' = Seen(seen, trace'.observed, Blank)
    /\ last' = [func_ref |-> 0, inst |-> 0, op |-> "call_by_name", tracing |-> trace.tracing,
                since |-> last.since]
    /\ UNCHANGED <<traces, fvars, lvars, rvars, wvars>>

ArgsFor(name) ==
    IF get_func_ref_by_name(name) = None THEN {<<>>}
    ELSE ArgVectors(Len(Env[get_func_ref_by_name(name)[1]].blocks[1].params))

(***************************************************************************)
(* The constant folder (constant_folding.rs)                               *)
(***************************************************************************)

\* function %straight() -> i32: constants feeding an iadd and an isub
FoldStraight(a, b) ==
    Func("%straight", << Blk(<<>>, <<1, 2, 3, 4, 5>>) >>,
         << Iconst(0, a), Iconst(1, b), Iadd(2, 0, 1), Isub(3, 2, 0), Return(<<3>>) >>)

\* function %branch() -> i32: a brnz on a constant, both edges into block1 carry a constant
FoldBranch(t, a, b) ==
    Func("%branch", << Blk(<<>>, <<1, 2, 3, 4, 5>>), Blk(<<3>>, <<6, 7>>) >>,
         << Bconst(0, t), Iconst(1, a), Iconst(2, b), Brnz(<<0, 1>>, 2), Jump(2, <<2>>),
            Iadd(4, 3, 3), Return(<<4>>) >>)

\* function %merge(b1, i32) -> i32: block1's parameter gets a constant on one edge
\* and the function's parameter on the other
FoldMerge(a) ==
    Func("%merge", << Blk(<<0, 1>>, <<1, 2, 3>>), Blk(<<3>>, <<4, 5>>) >>,
         << Iconst(2, a), Brnz(<<0, 2>>, 2), Jump(2, <<1>>),
            Iadd(4, 3, 3), Return(<<4>>) >>)

\* function %late(b1) -> i32: block1's parameter gets a constant on one edge and a
\* sum of constants on the other
FoldLate(a, b) ==
    Func("%late", << Blk(<<0>>, <<1, 2, 3, 4, 5>>), Blk(<<4>>, <<6, 7>>) >>,
         << Iconst(1, b), Iadd(2, 1, 1), Iconst(3, a), Brnz(<<0, 3>>, 2), Jump(2, <<2>>),
            Iadd(5, 4, 3), Return(<<5>>) >>)

\* function %loop(b1) -> i32: block1 branches back to itself; its first parameter is
\* fed by a constant and by a sum computed in the loop, its second by a constant
\* and by itself
FoldLoop(a, b) ==
    Func("%loop", << Blk(<<0>>, <<1, 2, 3>>), Blk(<<2, 3>>, <<4, 5, 6>>) >>,
         << Iconst(1, a), Iconst(5, b), Jump(2, <<1, 5>>),
            Iadd(4, 2, 3), Brnz(<<0, 4, 3>>, 2), Return(<<4>>) >>)

\* function %div() -> i32: a division of a constant by the constant zero
FoldDiv(a) ==
    Func("%div", << Blk(<<>>, <<1, 2, 3, 4>>) >>,
         << Iconst(0, a), Iconst(1, 0), Udiv(2, 0, 1), Return(<<2>>) >>)

\* function %twice() -> i32: one jump passes the same constant for both parameters
\* of block1
FoldTwice(a) ==
    Func("%twice", << Blk(<<>>, <<1, 2>>), Blk(<<1, 2>>, <<3, 4>>) >>,
         << Iconst(0, a), Jump(2, <<0, 0>>), Iadd(3, 1, 2), Return(<<3>>) >>)

\* The functions the folder is run on.
FoldConsts == 0..MaxConst
FoldFunctions ==
    {FoldStraight(a, b) : a, b \in FoldConsts}
    \cup {FoldBranch(t, a, b) : t \in BOOLEAN, a, b \in FoldConsts}
    \cup {FoldMerge(a) : a \in FoldConsts}
    \cup {FoldLate(a, b) : a, b \in FoldConsts}
    \cup {FoldLoop(a, b) : a, b \in FoldConsts}
    \cup {FoldDiv(a) : a \in FoldConsts}
    \cup {FoldTwice(a) : a \in FoldConsts}

\* The argument vectors of a function handed to the folder, by its signature
\* (%loop runs forever on true).
FoldArgs(f) ==
    IF f.name = "%merge" THEN {<<BoolV(t), IntV(n)>> : t \in BOOLEAN, n \in 0..MaxArg}
    ELSE IF f.name = "%late" THEN {<<BoolV(t)>> : t \in BOOLEAN}
    ELSE IF f.name = "%loop" THEN {<<BoolV(FALSE)>>}
    ELSE {<<>>}

\* LatticeValue
Top == [l |-> "Top", c |-> Unset]
Constant(c) == [l |-> "Constant", c |-> c]
Bottom == [l |-> "Bottom", c |-> Unset]

\* a meet that keeps the later of two different constants
LatticeValue_meet_last(a, b) ==
    IF a = Top THEN b
    ELSE IF b = Top THEN a
    ELSE IF a = Bottom \/ b = Bottom THEN Bottom
    ELSE b

\* a meet that knows only equal values
LatticeValue_meet_equal(a, b) == IF a = b THEN a ELSE Bottom

\* LatticeValue::meet
LatticeValue_meet(a, b) ==
    IF a = Top THEN b
    ELSE IF b = Top THEN a
    ELSE IF a = Bottom \/ b = Bottom THEN Bottom
    ELSE IF a = b THEN a
    ELSE Bottom

\* dfg.num_values(); dfg.values() runs over 0 .. num_values - 1
num_values(f) == Cardinality(ValueRefsOf(f))

\* Opcode::is_branch, Opcode::can_load
is_branch(op) == op \in {"jump", "fallthrough", "brnz"}
can_load(op) == op \in {"load"}

\* dfg.value_def: the instruction a value is a result of, None for a parameter
value_def(f, value) ==
    IF \E i \in DOMAIN f.dfg : \E k \in DOMAIN f.dfg[i].res : f.dfg[i].res[k] = value
    THEN Some(CHOOSE i \in DOMAIN f.dfg : \E k \in DOMAIN f.dfg[i].res : f.dfg[i].res[k] = value)
    ELSE None

\* is_value_unknowable
is_value_unknowable(f, def) == def # None /\ can_load(f.dfg[def[1]].op)

\* resolve_value_to_imm
resolve_value_to_imm(f, def) ==
    IF def = None THEN None
    ELSE IF f.dfg[def[1]].op = "iconst" THEN Some(IntV(f.dfg[def[1]].imm))
    ELSE IF f.dfg[def[1]].op = "bconst" THEN Some(BoolV(f.dfg[def[1]].imm = 1))
    ELSE None

\* Values::setup, the LatticeValue it gives one name
setup_value(f, def) ==
    IF is_value_unknowable(f, def) THEN Bottom
    ELSE IF resolve_value_to_imm(f, def) # None THEN Constant(resolve_value_to_imm(f, def)[1])
    ELSE Top

\* Values::setup, the names it pushes on the worklist, in the order of dfg.values()
RECURSIVE setup_worklist(_, _, _)
setup_worklist(vals, name, n) ==
    IF name >= n THEN <<>>
    ELSE (IF vals[name] # Top THEN <<name>> ELSE <<>>) \o setup_worklist(vals, name + 1, n)

\* Values::setup
Values_setup(f) == [name \in 0..(num_values(f) - 1) |-> setup_value(f, value_def(f, name))]

RECURSIVE Concat(_, _)
Concat(ss, k) == IF k > Len(ss) THEN <<>> ELSE ss[k] \o Concat(ss, k + 1)

\* The instructions of the layout, block after block (FuncCursor::next_block / next_inst).
LayoutInsts(f) == Concat([b \in DOMAIN f.blocks |-> f.blocks[b].insts], 1)

\* branch_arguments
branch_arguments(data) ==
    IF data.op \in {"jump", "fallthrough"} THEN data.args
    ELSE IF data.args = <<>> THEN <<>>
    ELSE Tail(data.args)

\* the zip of a branch's arguments with the parameters of its destination
ZipBranch(f, data) ==
    [k \in 1..MinOf(Len(branch_arguments(data)), Len(f.blocks[data.dest].params)) |->
        [from |-> branch_arguments(data)[k], to |-> f.blocks[data.dest].params[k]]]

\* SsaNameUses::new: one entry for every argument of every instruction of the layout
ArgumentUses(f, insts) ==
    Concat([k \in DOMAIN insts |->
              [j \in DOMAIN f.dfg[insts[k]].args |->
                  [inst |-> insts[k], value |-> f.dfg[insts[k]].args[j]]]], 1)

UsesOf(occurrences, value) ==
    LET Reads(o) == o.value = value
        mine == SelectSeq(occurrences, Reads)
    IN  [k \in DOMAIN mine |-> mine[k].inst]

SsaNameUses(f) ==
    [value \in 0..(num_values(f) - 1) |-> UsesOf(ArgumentUses(f, LayoutInsts(f)), value)]

\* PhiValues::new: the branch arguments that flow into each block parameter
BranchInputs(f, insts) ==
    Concat([k \in DOMAIN insts |->
              IF is_branch(f.dfg[insts[k]].op) THEN ZipBranch(f, f.dfg[insts[k]]) ELSE <<>>], 1)

InputsOf(pairs, param) ==
    LET Feeds(p) == p.to = param
        mine == SelectSeq(pairs, Feeds)
    IN  [k \in DOMAIN mine |-> mine[k].from]

PhiValues(f) ==
    [param \in UNION {SeqRange(f.blocks[b].params) : b \in DOMAIN f.blocks} |->
        InputsOf(BranchInputs(f, LayoutInsts(f)), param)]

\* find_block_parameter_for_branch_argument
find_block_parameter_for_branch_argument(f, i, arg) ==
    LET pairs == ZipBranch(f, f.dfg[i]) IN
    IF \E k \in DOMAIN pairs : pairs[k].from = arg
    THEN Some(pairs[CHOOSE k \in DOMAIN pairs :
                       /\ pairs[k].from = arg
                       /\ \A j \in DOMAIN pairs : pairs[j].from = arg => k <= j].to)
    ELSE None

\* meet: the fold of LatticeValue::meet over the inputs of a block parameter
RECURSIVE meet_fold(_, _, _, _)
meet_fold(names, k, vals, acc) ==
    IF k > Len(names) THEN acc
    ELSE meet_fold(names, k + 1, vals, LatticeValue_meet(acc, vals[names[k]]))

\* a meet that reports a change whether or not the fold differs from the previous value
meet_always(phis, vals, param_name) == Some(meet_fold(phis[param_name], 1, vals, Top))

meet(phis, vals, param_name) ==
    IF meet_fold(phis[param_name], 1, vals, Top) # vals[param_name]
    THEN Some(meet_fold(phis[param_name], 1, vals, Top))
    ELSE None

\* DataValue::add / sub / div on two values; Err (None) unless both are integers of
\* one type, and on a division by zero
DataValue_op(op, a, b) ==
    IF ~Ints(a, b) THEN None
    ELSE CASE op = "iadd" -> Some(IntV(a.v + b.v))
           [] op = "isub" -> Some(IntV(a.v - b.v))
           [] op = "udiv" -> IF b.v = 0 THEN None ELSE Some(IntV(a.v \div b.v))

\* a rule that looks for Top before it looks for Bottom
lattice_binary_top_first(op, a, b) ==
    IF a = Top \/ b = Top THEN Some(Top)
    ELSE IF a = Bottom \/ b = Bottom THEN Some(Bottom)
    ELSE IF DataValue_op(op, a.c, b.c) = None THEN None
    ELSE Some(Constant(DataValue_op(op, a.c, b.c)[1]))

\* binary: the rule of the Value impl of LatticeValue for two operands
lattice_binary(op, a, b) ==
    IF a = Bottom \/ b = Bottom THEN Some(Bottom)
    ELSE IF a.l = "Constant" /\ b.l = "Constant"
         THEN IF DataValue_op(op, a.c, b.c) = None THEN None
              ELSE Some(Constant(DataValue_op(op, a.c, b.c)[1]))
    ELSE Some(Top)

\* Value::into_bool of LatticeValue: convert(DataValue::into_bool, self)
into_bool(a) ==
    IF a.l = "Constant" /\ a.c.t = "bool" THEN Some(a.c.v) ELSE None

\* ControlFlow::Assign of cranelift_interpreter::step
Assign(vals) == CF("Assign", 0, <<>>, vals, "", 0)

\* cranelift_interpreter::step::step over LatticeValue, Err is None
step(vals, data) ==
    CASE data.op = "iconst" -> Some(Assign(<<Constant(IntV(data.imm))>>))
      [] data.op = "bconst" -> Some(Assign(<<Constant(BoolV(data.imm = 1))>>))
      [] data.op \in {"iadd", "isub", "udiv"} ->
            IF lattice_binary(data.op, vals[data.args[1]], vals[data.args[2]]) = None THEN None
            ELSE Some(Assign(<<lattice_binary(data.op, vals[data.args[1]], vals[data.args[2]])[1]>>))
      [] data.op = "brnz" ->
            IF into_bool(vals[data.args[1]]) = None THEN None
            ELSE IF into_bool(vals[data.args[1]])[1] = 1
                 THEN Some(ContinueAt(data.dest, Tail(data.args)))
            ELSE Some(Continue)
      [] data.op \in {"jump", "fallthrough"} -> Some(ContinueAt(data.dest, data.args))
      [] data.op = "return" -> Some(ControlFlowReturn([k \in DOMAIN data.args |-> vals[data.args[k]]]))
      [] data.op = "nop" -> Some(Continue)
      [] OTHER -> None

\* interpret
interpret(f, i, vals) == step(vals, f.dfg[i])

\* replace_inst
replace_inst(f, i, const_imm) ==
    IF const_imm.t = "int"
    THEN [f EXCEPT !.dfg[i] = Iconst(@.res[1], const_imm.v)]
    ELSE [f EXCEPT !.dfg[i] = Bconst(@.res[1], const_imm.v = 1)]

\* a layout that keeps the instructions after the branch
remove_rest_kept(insts, i) == insts

\* func.layout.remove_inst of every instruction after i in its block
remove_rest(insts, i) ==
    IF \E k \in DOMAIN insts : insts[k] = i
    THEN SubSeq(insts, 1, CHOOSE k \in DOMAIN insts : insts[k] = i)
    ELSE insts

\* possibly_replace_branch_with_jump
possibly_replace_branch_with_jump(f, i, block) ==
    IF f.dfg[i].op \in {"jump", "fallthrough"} THEN f
    ELSE [f EXCEPT !.dfg[i] = Jump(block, branch_arguments(@)),
                   !.blocks = [b \in DOMAIN @ |->
                                  [@[b] EXCEPT !.insts = remove_rest(@, i)]]]

\* func.dfg.replace(i).nop()
replace_nop(f, i) == [f EXCEPT !.dfg[i] = Nop]

\* The part of the state fold_constants works on.
Folder(f, vals, wl, log, pushed) ==
    [func |-> f, values |-> vals, worklist |-> wl, sets |-> log, pushes |-> pushed]

\* Values::set
Values_set(st, name, value) ==
    [st EXCEPT !.values[name] = value,
               !.sets = Append(@, [name |-> name, old |-> st.values[name], new |-> value])]

\* worklist.push
push(st, name) == [st EXCEPT !.worklist = Append(@, name), !.pushes = Append(@, name)]

\* fold_constants, a use that is a branch: `if let Some(changed) = meet(..)`
met(st, block_name, changed) ==
    IF changed = None THEN st
    ELSE push(Values_set(st, block_name, changed[1]), block_name)

\* fold_constants, a use that is a branch: `if let Some(block_name) = find_block_parameter..`
met_at(st, phis, block_name) ==
    IF block_name = None THEN st
    ELSE met(st, block_name[1], meet(phis, st.values, block_name[1]))

after_meet(st, phis, i, v) ==
    IF is_branch(st.func.dfg[i].op)
    THEN met_at(st, phis, find_block_parameter_for_branch_argument(st.func, i, v))
    ELSE st

\* fold_constants, the Assign arm: the loop over results zipped with result_values
RECURSIVE assign_results(_, _, _, _)
assign_results(st, results, result_values, k) ==
    IF k > Len(results) \/ k > Len(result_values) THEN st
    ELSE IF st.values[results[k]] # result_values[k]
         THEN assign_results(push(Values_set(st, results[k], result_values[k]), results[k]),
                             results, result_values, k + 1)
    ELSE assign_results(st, results, result_values, k + 1)

\* fold_constants, the Assign arm
assign(st, i, result_values) ==
    IF Len(result_values) = 1 /\ result_values[1].l = "Constant"
    THEN assign_results([st EXCEPT !.func = replace_inst(@, i, result_values[1].c)],
                        st.func.dfg[i].res, result_values, 1)
    ELSE assign_results(st, st.func.dfg[i].res, result_values, 1)

\* fold_constants, the match on what interpret returned
after_interpret(st, i, r) ==
    IF r = None THEN st
    ELSE IF r[1].kind = "Assign" THEN assign(st, i, r[1].values)
    ELSE IF r[1].kind = "ContinueAt"
         THEN [st EXCEPT !.func = possibly_replace_branch_with_jump(@, i, r[1].block)]
    ELSE IF r[1].kind = "Continue" /\ is_branch(st.func.dfg[i].op)
         THEN [st EXCEPT !.func = replace_nop(@, i)]
    ELSE st

\* The instruction the loop over uses.get(v) is at, and the state after its meet.
CurUse == uses[cur[1].value][cur[1].k]
Met == after_meet(Folder(func, values, worklist, sets, pushes), inputs, CurUse, cur[1].value)
Outcome == interpret(Met.func, CurUse, Met.values)
OutcomeKind == IF Outcome = None THEN "None" ELSE Outcome[1].kind

Visiting == phase = "loop" /\ cur # None

Folded(st) ==
    /\ func' = st.func
    /\ values' = st.values
    /\ worklist' = st.worklist
    /\ sets' = st.sets
    /\ pushes' = st.pushes
    /\ cur' = IF cur[1].k < Len(uses[cur[1].value])
              THEN Some([value |-> cur[1].value, k |-> cur[1].k + 1])
              ELSE None
    /\ UNCHANGED <<uses, inputs, phase, runs, orig, once, ivars, lvars, rvars, wvars>>

\* One iteration of `for &i in uses.get(v)`.
Visit == Folded(after_interpret(Met, CurUse, Outcome))

\* interpret returned Assign(result_values)
VisitAssign ==
    /\ Visiting /\ OutcomeKind = "Assign"
    /\ Visit

\* interpret returned ContinueAt(block, _)
VisitContinueAt ==
    /\ Visiting /\ OutcomeKind = "ContinueAt"
    /\ Visit

\* interpret returned Continue
VisitContinue ==
    /\ Visiting /\ OutcomeKind = "Continue"
    /\ Visit

\* interpret returned None or a Return: the `_ => {}` arm
VisitNothing ==
    /\ Visiting /\ OutcomeKind \in {"None", "Return"}
    /\ Visit

\* `while let Some(v) = worklist.pop()`
PopValue ==
    /\ phase = "loop" /\ cur = None /\ worklist # <<>>
    /\ worklist' = SubSeq(worklist, 1, Len(worklist) - 1)
    /\ cur' = IF uses[worklist[Len(worklist)]] = <<>> THEN None
              ELSE Some([value |-> worklist[Len(worklist)], k |-> 1])
    /\ UNCHANGED <<func, values, uses, inputs, phase, runs, orig, once, sets, pushes, ivars, lvars, rvars, wvars>>

SetUp(vals) ==
    /\ values' = vals
    /\ worklist' = setup_worklist(vals, 0, num_values(func))
    /\ pushes' = setup_worklist(vals, 0, num_values(func))

\* fold_constants up to its worklist loop
FoldConstants ==
    /\ phase = "idle" /\ runs < MaxRuns
    /\ SetUp(Values_setup(func))
    /\ uses' = SsaNameUses(func)
    /\ inputs' = PhiValues(func)
    /\ cur' = None
    /\ phase' = "loop"
    /\ sets' = <<>>
    /\ UNCHANGED <<func, runs, orig, once, ivars, lvars, rvars, wvars>>

\* fold_constants returns: the worklist is empty
FoldReturn ==
    /\ phase = "loop" /\ cur = None /\ worklist = <<>>
    /\ phase' = "idle"
    /\ runs' = runs + 1
    /\ once' = IF runs = 0 THEN func ELSE once
    /\ UNCHANGED <<func, worklist, values, uses, inputs, cur, orig, sets, pushes, ivars, lvars, rvars, wvars>>

(***************************************************************************)
(* The operations of LatticeValue, applied to lattice values on their own. *)
(***************************************************************************)

\* ValueResult: Ok(v), Err(_); an operation that reaches unimplemented!() panics
Ok(v) == [res |-> "Ok", v |-> <<v>>]
Err == [res |-> "Err", v |-> <<>>]
Unimplemented == [res |-> "unimplemented", v |-> <<>>]

\* The lattice values over the constants of the model.
LatticeValues ==
    {Top, Bottom} \cup {Constant(IntV(c)) : c \in FoldConsts} \cup {Constant(BoolV(t)) : t \in BOOLEAN}

\* DataValue::convert(ValueConversionKind::ToBoolean)
DataValue_convert(a) == IF a.t = "int" THEN Ok(Constant(BoolV(a.v # 0))) ELSE Err

\* <LatticeValue as Value>::convert
LatticeValue_convert(a) == IF a.l = "Constant" THEN DataValue_convert(a.c) ELSE Unimplemented

\* convert_ref, as <LatticeValue as Value>::is_nan uses it (no constant of the model is a float)
convert_ref(a) == IF a.l = "Constant" THEN Ok(0) ELSE Unimplemented

\* convert, as <LatticeValue as Value>::into_int uses it
convert(a) ==
    IF a.l = "Constant" THEN (IF a.c.t = "int" THEN Ok(a.c.v) ELSE Err)
    ELSE Err

\* <LatticeValue as Value>::eq, gt, uno
LatticeValue_compare(op, a, b) ==
    IF a.l = "Constant" /\ b.l = "Constant"
    THEN CASE op = "eq" -> Ok(IF a.c = b.c THEN 1 ELSE 0)
           [] op = "gt" -> IF Ints(a.c, b.c) THEN Ok(IF a.c.v > b.c.v THEN 1 ELSE 0) ELSE Err
           [] op = "uno" -> Ok(0)
    ELSE Unimplemented

\* LatticeValue::meet applied to x and y, both ways round, to x and itself, and to
\* x, y and z in both groupings
ApplyMeet ==
    /\ operation = "none"
    /\ operation' = "meet"
    /\ outcome' = << LatticeValue_meet(operands.x, operands.y),
                     LatticeValue_meet(operands.y, operands.x),
                     LatticeValue_meet(operands.x, operands.x),
                     LatticeValue_meet(LatticeValue_meet(operands.x, operands.y), operands.z),
                     LatticeValue_meet(operands.x, LatticeValue_meet(operands.y, operands.z)) >>
    /\ UNCHANGED <<operands, ivars, fvars, rvars, wvars>>

\* eq, gt or uno applied to x and y
ApplyCompare ==
    /\ operation = "none"
    /\ \E op \in {"eq", "gt", "uno"} :
          /\ operation' = op
          /\ outcome' = << LatticeValue_compare(op, operands.x, operands.y) >>
    /\ UNCHANGED <<operands, ivars, fvars, rvars, wvars>>

\* convert, is_nan or into_int applied to x
ApplyConvert ==
    /\ operation = "none"
    /\ \E op \in {"convert", "is_nan", "into_int"} :
          /\ operation' = op
          /\ outcome' = << CASE op = "convert" -> LatticeValue_convert(operands.x)
                             [] op = "is_nan" -> convert_ref(operands.x)
                             [] op = "into_int" -> convert(operands.x) >>
    /\ UNCHANGED <<operands, ivars, fvars, rvars, wvars>>

(***************************************************************************)
(* Run commands (reader/src/run_command.rs)                                *)
(***************************************************************************)

\* Longest vector of expected or returned values.
MaxVals == 2

\* DataValue: an integer, a boolean, or a float that may be a NaN.
DataValue(t, v, nan) == [t |-> t, v |-> v, nan |-> nan]
DataValueSet ==
    {DataValue("I32", 0, 0), DataValue("I32", 1, 0), DataValue("B", 1, 0),
     DataValue("F32", 0, 0), DataValue("F32", 0, 1)}
DataVectors == UNION {[1..n -> DataValueSet] : n \in 0..MaxVals}

\* #[derive(PartialEq)] on DataValue: the same variant and equal fields; the field
\* of F32 is an f32, which is not equal to itself when it is a NaN
DataValue_eq(a, b) ==
    /\ a.t = b.t
    /\ IF a.t = "F32" THEN a.nan = 0 /\ b.nan = 0 /\ a.v = b.v ELSE a.v = b.v

\* PartialEq of Vec<DataValue>: the same length and equal elements
Vec_eq(a, b) == Len(a) = Len(b) /\ \A k \in DOMAIN a : DataValue_eq(a[k], b[k])

\* #[derive(Debug)] on DataValue, as tokens of the text
Debug_value(a) ==
    CASE a.t = "I32" -> IF a.v = 0 THEN "I32(0)" ELSE "I32(1)"
      [] a.t = "B" -> IF a.v = 0 THEN "B(false)" ELSE "B(true)"
      [] OTHER -> IF a.nan = 1 THEN "F32(NaN)" ELSE "F32(0.0)"

\* Debug of a Vec<DataValue>
RECURSIVE Debug_list(_, _)
Debug_list(vs, k) ==
    IF k > Len(vs) THEN <<>>
    ELSE (IF k > 1 THEN <<", ">> ELSE <<>>) \o <<Debug_value(vs[k])>> \o Debug_list(vs, k + 1)

Debug_vec(vs) == <<"[">> \o Debug_list(vs, 1) \o <<"]">>

Invocation(fn, args) == [func |-> fn, args |-> args]
PrintOf(invoke) == [kind |-> "Print", invoke |-> invoke, compare |-> "", expected |-> <<>>]
RunOf(invoke, compare, expected) ==
    [kind |-> "Run", invoke |-> invoke, compare |-> compare, expected |-> expected]

Debug_invocation(invoke) ==
    <<"Invocation { func: ", invoke.func, ", args: ">> \o Debug_vec(invoke.args) \o <<" }">>

\* Debug of a RunCommand::Run, the one the text of an error is made of
Debug_command(c) ==
    <<"Run(">> \o Debug_invocation(c.invoke) \o <<", ", c.compare, ", ">>
    \o Debug_vec(c.expected) \o <<")">>

\* Result<Vec<DataValue>, String> and Result<(), String>
OkOf(vs) == [kind |-> "Ok", vals |-> vs, text |-> <<>>]
ErrOf(text) == [kind |-> "Err", vals |-> <<>>, text |-> text]

\* What invoke_fn may return: any vector of values, or an error
InvokeResults == {OkOf(vs) : vs \in DataVectors} \cup {ErrOf(<<"invocation failed">>)}

\* every comparison passes
matched_always(compare, expected, actual) == TRUE

\* the comparison of the Run arm
matched(compare, expected, actual) ==
    IF compare = "Equals" THEN Vec_eq(expected, actual) ELSE ~Vec_eq(expected, actual)

\* RunCommand::run, given what the one call of invoke_fn returns: `?` returns the
\* error of the invocation as it is (From<String> for String)
run(c, returned) ==
    IF returned.kind = "Err" THEN ErrOf(returned.text)
    ELSE IF c.kind = "Print" THEN OkOf(<<>>)
    ELSE IF ~matched(c.compare, c.expected, returned.vals)
    THEN ErrOf(<<"Failed test: ">> \o Debug_command(c) \o <<", actual: ">>
               \o Debug_vec(returned.vals))
    ELSE OkOf(<<>>)

RunCommands ==
    {PrintOf(Invocation(f, <<>>)) : f \in {"%f", "%g"}}
    \cup {RunOf(Invocation("%f", <<DataValue("I32", 1, 0)>>), cmp, vs) :
             cmp \in {"Equals", "NotEquals"}, vs \in DataVectors}

\* The Print arm: invoke_fn is called on the function and arguments of the command
RunPrint ==
    /\ ran = None /\ command.kind = "Print"
    /\ \E returned \in InvokeResults :
          /\ invoked' = Append(invoked, [func |-> command.invoke.func,
                                          args |-> command.invoke.args,
                                          returned |-> returned])
          /\ ran' = Some(run(command, returned))
    /\ UNCHANGED <<command, ivars, fvars, lvars, wvars>>

\* The Run arm
RunRun ==
    /\ ran = None /\ command.kind = "Run"
    /\ \E returned \in InvokeResults :
          /\ invoked' = Append(invoked, [func |-> command.invoke.func,
                                          args |-> command.invoke.args,
                                          returned |-> returned])
          /\ ran' = Some(run(command, returned))
    /\ UNCHANGED <<command, ivars, fvars, lvars, wvars>>

(***************************************************************************)
(* wasi-parallel: the context, its buffers and the CPU devices             *)
(***************************************************************************)

\* Number of calls made on one WasiParallelContext.
MaxRequests == 3
\* Largest num_threads handed to a parallel for.
MaxThreads == 2

\* The ids random_id may return for devices and for buffers, the sizes of buffers
\* and slices, the offsets of slices and the numbers of CPUs of the host.
DeviceIds == {1, 2}
BufferIds == {1, 2}
Sizes == {1, 2}
Offsets == {0, 4}
CpuCounts == {1, 2}
BlockSizes == {1}

\* discover(): the thread pool device, then the single-threaded one
Discovered == << "thread pool implementation", "single-threaded implementation" >>

\* IndexMap::insert: a new key is appended, a known key keeps its place and gets
\* the new value
IndexMap_insert(m, id, device) ==
    IF \E k \in DOMAIN m : m[k].id = id
    THEN [k \in DOMAIN m |-> IF m[k].id = id THEN [id |-> id, name |-> device] ELSE m[k]]
    ELSE Append(m, [id |-> id, name |-> device])

\* WasiParallelContext::new: every discovered device under a random id
ContextDevices(id1, id2) == IndexMap_insert(IndexMap_insert(<<>>, id1, Discovered[1]), id2, Discovered[2])

\* IndexMap::get
DeviceOf(m, id) ==
    IF \E k \in DOMAIN m : m[k].id = id
    THEN Some(m[CHOOSE k \in DOMAIN m : m[k].id = id])
    ELSE None

\* WasiParallelContext::get_default_device
get_default_device(m) == IF m = <<>> THEN None ELSE Some(m[1].id)

\* HashMap::insert
HashMap_insert(m, key, val) == [x \in DOMAIN m \cup {key} |-> IF x = key THEN val ELSE m[x]]

\* WasmMemoryBuffer::new, with the device whose create_buffer made it and whether a
\* write on it has succeeded
WasmMemoryBuffer(size, device_id) ==
    [offset |-> None, length |-> size, made_on |-> device_id, written |-> 0]

\* a write that records the offset whatever the length of the slice
write_unchecked(buffer, slice) == [ok |-> 1, buffer |-> [buffer EXCEPT !.offset = Some(slice.offset), !.written = 1]]

\* WasmMemoryBuffer::write
write(buffer, slice) ==
    IF slice.len = buffer.length
    THEN [ok |-> 1, buffer |-> [buffer EXCEPT !.offset = Some(slice.offset), !.written = 1]]
    ELSE [ok |-> 0, buffer |-> buffer]

\* What a call of the context returned
Answer(op, kind, id, len, n, listed, device) ==
    [op |-> op, kind |-> kind, id |-> id, len |-> len, n |-> n, listed |-> listed, device |-> device]

NoAnswer == Answer("none", "Ok", 0, 0, 0, <<>>, 0)

\* No parallel for is in progress.
NoPool == [active |-> 0, queue |-> <<>>, workers |-> <<>>, params |-> <<>>]

\* The context takes a call: none is in progress, none has panicked.
Ready == pool.active = 0 /\ answer.kind # "panic" /\ requests < MaxRequests

\* WasiParallelContext::create_buffer
CreateBuffer ==
    /\ Ready
    /\ \E device_id \in DeviceIds \cup {0}, size \in Sizes \cup {0 - 1}, id \in BufferIds :
          IF DeviceOf(devices, device_id) = None \/ size < 0
          THEN /\ answer' = Answer("create_buffer", "Err", 0, size, 0, <<>>, device_id)
               /\ UNCHANGED <<buffers, device_for_buffers>>
          ELSE /\ buffers' = HashMap_insert(buffers, id, WasmMemoryBuffer(size, device_id))
               /\ device_for_buffers' = HashMap_insert(device_for_buffers, id, device_id)
               /\ answer' = Answer("create_buffer", "Ok", id, size, 0, <<>>, device_id)
    /\ requests' = requests + 1
    /\ UNCHANGED <<devices, pool, kernels, ivars, fvars, lvars, rvars>>

\* get_buffer_mut(id)?.write(slice)
WriteBuffer ==
    /\ Ready
    /\ \E id \in BufferIds, len \in Sizes, offset \in Offsets :
          IF id \notin DOMAIN buffers
          THEN /\ answer' = Answer("write_buffer", "Err", id, len, 0, <<>>, 0)
               /\ UNCHANGED buffers
          ELSE /\ buffers' = [buffers EXCEPT ![id] = write(@, [len |-> len, offset |-> offset]).buffer]
               /\ answer' = Answer("write_buffer",
                                    IF write(buffers[id], [len |-> len, offset |-> offset]).ok = 1
                                    THEN "Ok" ELSE "Err",
                                    id, len, 0, <<>>, 0)
    /\ requests' = requests + 1
    /\ UNCHANGED <<devices, device_for_buffers, pool, kernels, ivars, fvars, lvars, rvars>>

\* the device of the first listed buffer, unchecked against the others
same_device_first(devs) == IF devs = <<>> THEN [ok |-> 1, device |-> None] ELSE [ok |-> 1, device |-> Some(devs[1])]

\* "Check that all buffers have the same device": the device of the listed buffers,
\* None when none is listed, or a failure when two of them differ
same_device(devs) ==
    IF devs = <<>> THEN [ok |-> 1, device |-> None]
    ELSE IF \E k \in DOMAIN devs : devs[k] # devs[1] THEN [ok |-> 0, device |-> None]
    ELSE [ok |-> 1, device |-> Some(devs[1])]

\* invoke_parallel_for up to the call of Device::invoke_for: the device the kernel
\* is sent to, or None for an Err
device_for_call(bufs, dfb, devs, listed) ==
    IF \E k \in DOMAIN listed : listed[k] \notin DOMAIN bufs THEN None
    ELSE IF same_device([k \in DOMAIN listed |-> dfb[listed[k]]]).ok = 0 THEN None
    ELSE IF get_default_device(devs) = None THEN None
    ELSE IF same_device([k \in DOMAIN listed |-> dfb[listed[k]]]).device = None
    THEN get_default_device(devs)
    ELSE IF DeviceOf(devs, same_device([k \in DOMAIN listed |-> dfb[listed[k]]]).device[1]) = None
    THEN None
    ELSE same_device([k \in DOMAIN listed |-> dfb[listed[k]]]).device

\* CpuDevice::invoke_for: the parameters every thread gets after its thread id;
\* None when a buffer has no offset (the expect on `buffer.offset` panics)
RECURSIVE buffer_params(_, _, _)
buffer_params(bufs, listed, k) ==
    IF k > Len(listed) THEN Some(<<>>)
    ELSE IF bufs[listed[k]].offset = None THEN None
    ELSE IF buffer_params(bufs, listed, k + 1) = None THEN None
    ELSE Some(<<bufs[listed[k]].offset[1], bufs[listed[k]].length>>
              \o buffer_params(bufs, listed, k + 1)[1])

\* one invocation of the kernel
KernelRun(device, thread_id, params, finished) ==
    [device |-> device, thread_id |-> thread_id, params |-> params, finished |-> finished]

\* CpuSingleThreadedDevice::invoke_for: the kernel on every thread id in turn; the
\* first invocation that fails panics (expect)
single_threaded(device, n, block_size, failing) ==
    [k \in 1..(IF failing < n THEN failing + 1 ELSE IF n > 0 THEN n ELSE 0) |->
        KernelRun(device, k - 1, <<k - 1, n, block_size>>, IF k - 1 = failing THEN 0 ELSE 1)]

\* Pool::new(num_cpus) and the loop of `pool.scoped`: one job per thread id, queued
\* in order
ScopedPool(cpus, n, params) ==
    [active |-> 1,
     queue |-> [k \in 1..(IF n > 0 THEN n ELSE 0) |-> k - 1],
     workers |-> [w \in 1..cpus |-> [state |-> "idle", job |-> 0]],
     params |-> params]

\* invoke_parallel_for on a call that gets to a device
InvokeOn(device, name, n, block_size, listed, cpus, failing) ==
    IF name = Discovered[2]
    THEN /\ kernels' = single_threaded(device, n, block_size, failing)
         /\ pool' = NoPool
         /\ answer' = Answer("parallel_for", IF failing < n THEN "panic" ELSE "Ok",
                              0, 0, n, listed, device)
    ELSE IF buffer_params(buffers, listed, 1) = None
    THEN /\ kernels' = <<>>
         /\ pool' = NoPool
         /\ answer' = Answer("parallel_for", "panic", 0, 0, n, listed, device)
    ELSE /\ kernels' = <<>>
         /\ pool' = ScopedPool(cpus, n, <<n, block_size>> \o buffer_params(buffers, listed, 1)[1])
         /\ answer' = Answer("parallel_for", "pending", 0, 0, n, listed, device)

Lists == {<<>>} \cup {<<b>> : b \in BufferIds \cup {0}}

\* WasiParallelContext::invoke_parallel_for
InvokeParallelFor ==
    /\ Ready
    /\ \E n \in (0 - 1)..MaxThreads, ins \in Lists, outs \in Lists, cpus \in CpuCounts,
          failing \in 0..MaxThreads, block_size \in BlockSizes :
          IF device_for_call(buffers, device_for_buffers, devices, ins \o outs) = None
          THEN /\ answer' = Answer("parallel_for", "Err", 0, 0, n, ins \o outs, 0)
               /\ kernels' = <<>>
               /\ pool' = NoPool
          ELSE InvokeOn(device_for_call(buffers, device_for_buffers, devices, ins \o outs)[1],
                        DeviceOf(devices, device_for_call(buffers, device_for_buffers, devices,
                                                          ins \o outs)[1])[1].name,
                        n, block_size, ins \o outs, cpus, failing)
    /\ requests' = requests + 1
    /\ UNCHANGED <<devices, buffers, device_for_buffers, ivars, fvars, lvars, rvars>>

\* A worker of the pool takes the next job of the queue and calls the kernel with
\* the thread id before the parameters.
WorkerTake ==
    /\ pool.active = 1 /\ pool.queue # <<>>
    /\ \E w \in DOMAIN pool.workers :
          /\ pool.workers[w].state = "idle"
          /\ pool' = [pool EXCEPT !.queue = Tail(@),
                                   !.workers[w] = [state |-> "busy", job |-> Head(pool.queue)]]
          /\ kernels' = Append(kernels, KernelRun(answer.device, Head(pool.queue),
                                                  <<Head(pool.queue)>> \o pool.params, 0))
    /\ UNCHANGED <<devices, buffers, device_for_buffers, answer, requests, ivars, fvars, lvars, rvars>>

\* the kernel runs of thread `job` marked as finished
Finish(runs_, job) ==
    [k \in DOMAIN runs_ |-> IF runs_[k].thread_id = job THEN [runs_[k] EXCEPT !.finished = 1]
                            ELSE runs_[k]]

\* The kernel of a worker returns Ok.
WorkerFinish ==
    /\ pool.active = 1
    /\ \E w \in DOMAIN pool.workers :
          /\ pool.workers[w].state = "busy"
          /\ pool' = [pool EXCEPT !.workers[w] = [state |-> "idle", job |-> 0]]
          /\ kernels' = Finish(kernels, pool.workers[w].job)
    /\ UNCHANGED <<devices, buffers, device_for_buffers, answer, requests, ivars, fvars, lvars, rvars>>

\* The kernel of a worker returns Err: expect("kernel failed") panics and the worker
\* thread is gone.
WorkerFail ==
    /\ pool.active = 1
    /\ \E w \in DOMAIN pool.workers :
          /\ pool.workers[w].state = "busy"
          /\ pool' = [pool EXCEPT !.workers[w] = [state |-> "dead", job |-> 0]]
    /\ UNCHANGED <<devices, buffers, device_for_buffers, kernels, answer, requests, ivars, fvars, lvars,
                   rvars>>

\* an end of `pool.scoped` that does not wait for the jobs that are running
JoinEarly ==
    /\ pool.active = 1
    /\ pool.queue = <<>>
    /\ answer' = [answer EXCEPT !.kind = "Ok"]
    /\ pool' = NoPool
    /\ UNCHANGED <<devices, buffers, device_for_buffers, kernels, requests, ivars, fvars, lvars, rvars>>

\* The end of `pool.scoped`: every worker that is alive has run out of jobs; the
\* call panics when a worker panicked and returns Ok otherwise.
JoinAll ==
    /\ pool.active = 1
    /\ \A w \in DOMAIN pool.workers : pool.workers[w].state # "busy"
    /\ pool.queue = <<>> \/ \A w \in DOMAIN pool.workers : pool.workers[w].state = "dead"
    /\ answer' = [answer EXCEPT !.kind = IF \E w \in DOMAIN pool.workers : pool.workers[w].state = "dead"
                                         THEN "panic" ELSE "Ok"]
    /\ pool' = NoPool
    /\ UNCHANGED <<devices, buffers, device_for_buffers, kernels, requests, ivars, fvars, lvars, rvars>>

(***************************************************************************)
(* Specifications                                                          *)
(***************************************************************************)

NoFunction == Func("", <<>>, <<>>)

\* No operation of LatticeValue is applied on its own.
NoLaw ==
    /\ operation = "none"
    /\ operands = <<>>
    /\ outcome = <<>>

\* No RunCommand is run.
NoRun ==
    /\ command = <<>>
    /\ invoked = <<>>
    /\ ran = <<>>

\* No WasiParallelContext is in use.
NoParallel ==
    /\ devices = <<>>
    /\ buffers = <<>>
    /\ device_for_buffers = <<>>
    /\ pool = <<>>
    /\ kernels = <<>>
    /\ answer = <<>>
    /\ requests = 0

\* No function is being folded.
NoFold ==
    /\ func = NoFunction
    /\ orig = NoFunction
    /\ once = NoFunction
    /\ worklist = <<>>
    /\ values = <<>>
    /\ uses = <<>>
    /\ inputs = <<>>
    /\ cur = None
    /\ phase = "idle"
    /\ runs = 0
    /\ sets = <<>>
    /\ pushes = <<>>

\* Interpreter::new
Init ==
    /\ stack = <<>>
    /\ trace = TraceDefault
    /\ traces = <<>>
    /\ status = "idle"
    /\ calls = <<>>
    /\ last = [func_ref |-> 0, inst |-> 0, op |-> "new", tracing |-> None, since |-> NotStarted]
    /\ seen = <<>>
    /\ NoFold
    /\ NoLaw
    /\ NoRun
    /\ NoParallel

Next ==
    \/ \E name \in CallNames : \E args \in ArgsFor(name) : CallByName(name, args)
    \/ StepBinary
    \/ StepBinaryImm
    \/ StepBranch
    \/ StepCall
    \/ StepJump
    \/ StepIntCompareImm
    \/ StepReturn
    \/ StepTraceStart
    \/ StepNop
    \/ StepIconst
    \/ StepTraceEnd
    \/ StepBconst
    \/ BlockEnd

Spec == Init /\ [][Next]_vars

\* A driver that hands one function to fold_constants, MaxRuns times over.
FoldInit ==
    /\ stack = <<>>
    /\ trace = TraceDefault
    /\ traces = <<>>
    /\ status = "idle"
    /\ calls = <<>>
    /\ last = [func_ref |-> 0, inst |-> 0, op |-> "new", tracing |-> None, since |-> NotStarted]
    /\ seen = <<>>
    /\ func \in FoldFunctions
    /\ orig = func
    /\ once = NoFunction
    /\ worklist = <<>>
    /\ values = <<>>
    /\ uses = <<>>
    /\ inputs = <<>>
    /\ cur = None
    /\ phase = "idle"
    /\ runs = 0
    /\ sets = <<>>
    /\ pushes = <<>>
    /\ NoLaw
    /\ NoRun
    /\ NoParallel

FoldNext ==
    \/ FoldConstants
    \/ PopValue
    \/ VisitAssign
    \/ VisitContinueAt
    \/ VisitContinue
    \/ VisitNothing
    \/ FoldReturn

FoldSpec == FoldInit /\ [][FoldNext]_vars

\* fold_constants is one sequential loop: whenever it can take a step it takes one.
FoldFair == FoldSpec /\ WF_vars(FoldNext)

\* The operations of LatticeValue on every choice of three lattice values.
LawInit ==
    /\ stack = <<>>
    /\ trace = TraceDefault
    /\ traces = <<>>
    /\ status = "idle"
    /\ calls = <<>>
    /\ last = [func_ref |-> 0, inst |-> 0, op |-> "new", tracing |-> None, since |-> NotStarted]
    /\ seen = <<>>
    /\ NoFold
    /\ operation = "none"
    /\ operands \in [x : LatticeValues, y : LatticeValues, z : LatticeValues]
    /\ outcome = <<>>
    /\ NoRun
    /\ NoParallel

\* A driver over the file whose traces are reconstructed.
RecNext ==
    \/ \E name \in RecNames : \E args \in ArgsFor(name) : CallByName(name, args)
    \/ StepBinary
    \/ StepBinaryImm
    \/ StepBranch
    \/ StepCall
    \/ StepJump
    \/ StepIntCompareImm
    \/ StepReturn
    \/ StepTraceStart
    \/ StepNop
    \/ StepIconst
    \/ StepTraceEnd
    \/ StepBconst
    \/ BlockEnd

RecSpec == Init /\ [][RecNext]_vars

\* A driver over the functions that step one instruction on their parameter.
StepArgsFor(name) == [1..Len(Env[get_func_ref_by_name(name)[1]].blocks[1].params) -> StepValues]

StepNext ==
    \/ \E name \in StepNames : \E args \in StepArgsFor(name) : CallByName(name, args)
    \/ StepBinaryImm
    \/ StepBranch
    \/ StepIntCompareImm
    \/ StepReturn
    \/ StepIconst

StepSpec == Init /\ [][StepNext]_vars

\* RunCommand::run on every command of a small file and every answer of invoke_fn.
RunInit ==
    /\ stack = <<>>
    /\ trace = TraceDefault
    /\ traces = <<>>
    /\ status = "idle"
    /\ calls = <<>>
    /\ last = [func_ref |-> 0, inst |-> 0, op |-> "new", tracing |-> None, since |-> NotStarted]
    /\ seen = <<>>
    /\ NoFold
    /\ NoLaw
    /\ NoParallel
    /\ command \in RunCommands
    /\ invoked = <<>>
    /\ ran = None

RunNext == RunPrint \/ RunRun

RunSpec == RunInit /\ [][RunNext]_vars

\* A WasiParallelContext after new(): its two devices under random ids, no buffers.
ParInit ==
    /\ stack = <<>>
    /\ trace = TraceDefault
    /\ traces = <<>>
    /\ status = "idle"
    /\ calls = <<>>
    /\ last = [func_ref |-> 0, inst |-> 0, op |-> "new", tracing |-> None, since |-> NotStarted]
    /\ seen = <<>>
    /\ NoFold
    /\ NoLaw
    /\ NoRun
    /\ \E id1, id2 \in DeviceIds : devices = ContextDevices(id1, id2)
    /\ buffers = <<>>
    /\ device_for_buffers = <<>>
    /\ pool = NoPool
    /\ kernels = <<>>
    /\ answer = NoAnswer
    /\ requests = 0

ParNext ==
    \/ CreateBuffer
    \/ WriteBuffer
    \/ InvokeParallelFor
    \/ WorkerTake
    \/ WorkerFinish
    \/ WorkerFail
    \/ JoinAll

ParSpec == ParInit /\ [][ParNext]_vars

LawNext ==
    \/ ApplyMeet
    \/ ApplyCompare
    \/ ApplyConvert

LawSpec == LawInit /\ [][LawNext]_vars

(***************************************************************************)
(* Properties of the interpreter and the trace recorder                    *)
(***************************************************************************)

\* The step about to be taken is `trace_start id` with id in the TraceStore.
Dispatching == AtInst /\ CurData.op = "trace_start" /\ contains(traces, CurData.imm)

\* The positions after the current one at which the block holds a trace_end.
RegionEnds ==
    {q \in (CurFrame.pos + 1)..Len(CurInsts) : CurFunction.dfg[CurInsts[q]].op = "trace_end"}

\* C1 (as claimed): once a trace for id is in the TraceStore, a step of
\* `trace_start id` runs the stored code instead of interpreting: the step
\* completes, tracing is not activated, nothing is appended to the Trace, and
\* interpretation resumes after the region's trace_end.
C1_DispatchSkipsRegion ==
    [][Dispatching =>
          /\ status' = "running"
          /\ trace' = trace
          /\ \A q \in RegionEnds : stack'[Len(stack')].pos > q]_vars

\* The step about to be taken is a trace_end with a trace active.
EndingTrace == AtInst /\ CurData.op = "trace_end" /\ trace.tracing # None

\* C2: when trace_end is stepped while a trace with id i is active and the step
\* succeeds (reconstruction and compilation return), then afterwards the Trace is
\* inactive, the record of the trace_end itself is gone from the end of the
\* recorded sequence, the TraceStore contains i, and the frame is at the next
\* instruction of the block.
C2_TraceEndStores ==
    [][(EndingTrace /\ status' = "running") =>
          /\ trace'.tracing = None
          /\ trace'.observed = trace.observed
          /\ contains(traces', trace.tracing[1])
          /\ stack' = WithTop(stack, Advance(CurFrame))]_vars

C2_Witness ==
    /\ last.op = "trace_end"
    /\ last.tracing # None
    /\ status = "running"
    /\ contains(traces, last.tracing[1])
    /\ Len(trace.observed) > 1

Repeat(rec, n) == [j \in 1..n |-> rec]

\* The call/return boundaries a transition crosses: one EnterFunction for a call
\* entered, one ExitFunction for every call left.
Boundaries ==
    IF Len(stack') > Len(stack) THEN <<EnterFunction(stack'[Len(stack')].func_ref)>>
    ELSE Repeat(ExitFunction, Len(stack) - Len(stack'))

\* C3: while a trace is active every stepped instruction is observed as exactly
\* one Instruction record and every function entry and return as exactly one
\* EnterFunction / ExitFunction record, in execution order (the trace_end step
\* removes again the one record that was observed for it); while no trace is
\* active observe appends nothing: the sequence stays as it is, but for the
\* StartInFunction record that a trace_start pushes when it activates the trace.
C3_ObserveWhileActive ==
    [][/\ (AtInst /\ trace.tracing # None /\ CurData.op # "trace_end") =>
             trace'.observed = trace.observed \o <<Instruction(CurInst)>> \o Boundaries
       /\ EndingTrace => trace'.observed = trace.observed
       /\ (~AtInst /\ trace.tracing # None) =>
             trace'.observed = trace.observed \o Boundaries
       /\ (trace.tracing = None /\ trace'.tracing = None) =>
             trace'.observed = trace.observed
       /\ (trace.tracing = None /\ trace'.tracing # None) =>
             /\ AtInst /\ CurData.op = "trace_start"
             /\ trace'.observed = Append(trace.observed, StartInFunction(CurFrame.func_ref))]_vars

C3_Witness ==
    /\ last.op = "call"
    /\ last.tracing # None
    /\ trace.tracing # None
    /\ Len(trace.observed) >= 2
    /\ trace.observed[Len(trace.observed)].kind = "EnterFunction"
    /\ trace.observed[Len(trace.observed) - 1].kind = "Instruction"

\* The step taken last was a trace_end that ended a trace.
TraceEnded == last.op = "trace_end" /\ last.tracing # None

CountKind(obs, kind, k) == Cardinality({j \in 1..k : obs[j].kind = kind})

\* Every ExitFunction closes an earlier EnterFunction and none stays open.
Balanced(obs) ==
    /\ \A k \in 1..Len(obs) :
          CountKind(obs, "ExitFunction", k) <= CountKind(obs, "EnterFunction", k)
    /\ CountKind(obs, "ExitFunction", Len(obs)) = CountKind(obs, "EnterFunction", Len(obs))

\* C4 (as claimed): at every trace_end the recorded trace is stack-balanced.
C4_BalancedAtTraceEnd == TraceEnded => Balanced(trace.observed)

\* C5 (as claimed): at every trace_end the recorded list holds exactly one
\* StartInFunction record, and it is the first record.
C5_OneStartInFunction ==
    TraceEnded =>
        /\ trace.observed # <<>>
        /\ \A k \in DOMAIN trace.observed :
              trace.observed[k].kind = "StartInFunction" <=> k = 1

\* C6: every top-level call that completes yields Return(values) or a Trap;
\* Continue and ContinueAt never reach the caller.
C6_TopLevelReturnOrTrap ==
    \A k \in DOMAIN calls :
        (k < Len(calls) \/ status = "idle") => calls[k].result.kind \in {"Return", "Trap"}

C6_Witness ==
    /\ status = "idle"
    /\ Len(calls) = 2
    /\ calls[1].name = "%count" /\ calls[1].args = <<IntV(2)>> /\ calls[1].result.kind = "Return"
    /\ calls[2].name = "%calls_falloff" /\ calls[2].result.trap = "Unreachable"

\* C7 (as claimed): a call that returned, made again with the same arguments on
\* the same interpreter, ends with the same result.
C7_SameResultAgain ==
    \A i, j \in DOMAIN calls :
        (/\ i < j
         /\ calls[i].name = calls[j].name
         /\ calls[i].args = calls[j].args
         /\ calls[i].result.kind = "Return"
         /\ calls[j].result # NoResult)
        => calls[j].result = calls[i].result

(***************************************************************************)
(* Properties of the constant folder                                       *)
(***************************************************************************)

\* One run of the original function in the interpreter (the loop of
\* Interpreter::block over Interpreter::inst), as the list of the instructions
\* executed, each with the control flow it gave and the frame it left.
RECURSIVE Exec(_, _, _)
ExecStep(f, i, out, events) ==
    IF out.cf.kind = "Continue"
    THEN Exec(f, Advance(out.frame), Append(events, [inst |-> i, cf |-> "Continue", frame |-> out.frame]))
    ELSE IF out.cf.kind = "ContinueAt"
    THEN Exec(f, [rename(out.frame, out.cf.names, f.blocks[out.cf.block].params)
                  EXCEPT !.block = out.cf.block, !.pos = 1],
              Append(events, [inst |-> i, cf |-> "ContinueAt", frame |-> out.frame]))
    ELSE Append(events, [inst |-> i, cf |-> out.cf.kind, frame |-> out.frame])

ExecInst(f, frame, i, events) ==
    ExecStep(f, i, inst_match(frame, f.dfg[i], TraceDefault, <<>>, TRUE), events)

Exec(f, frame, events) ==
    IF frame.pos > Len(f.blocks[frame.block].insts) THEN events
    ELSE ExecInst(f, frame, f.blocks[frame.block].insts[frame.pos], events)

Executions(f) ==
    {Exec(f, with_parameters(0, 0..(num_values(f) - 1), f.blocks[1].params, args), <<>>) :
        args \in FoldArgs(f)}

\* What the folder made of an instruction agrees with one execution of it.
Agrees(new, event) ==
    CASE new.op = "iconst" -> event.frame.vals[new.res[1]] = IntV(new.imm)
      [] new.op = "bconst" -> event.frame.vals[new.res[1]] = BoolV(new.imm = 1)
      [] new.op = "jump" -> event.cf = "ContinueAt"
      [] new.op = "nop" -> event.cf = "Continue"
      [] OTHER -> FALSE

SoundFor(f, g, events) ==
    \A k \in DOMAIN events :
        g.dfg[events[k].inst] # f.dfg[events[k].inst] => Agrees(g.dfg[events[k].inst], events[k])

\* C8 (as claimed): whatever fold_constants has put in the place of an instruction
\* is what the instruction does in every execution of the original function that
\* reaches it: a constant is the result it computes there, a jump a branch that is
\* taken there, a nop a branch that is not.
C8_FoldIsSound == \A events \in Executions(orig) : SoundFor(orig, func, events)

\* C9 (as claimed): a second run of fold_constants, on the result of the first,
\* leaves the function as the first run left it.
C9_FoldIsIdempotent == (runs >= 2 /\ phase = "idle") => func = once

\* new is old or lies below it: Top above every Constant, Bottom below.
Below(new, old) ==
    \/ new = old
    \/ old = Top
    \/ old.l = "Constant" /\ new = Bottom

\* C10: in the worklist loop of fold_constants no step moves the LatticeValue of a
\* name anywhere but downward: it stays, or goes from Top to a Constant or to
\* Bottom, or from a Constant to Bottom.
C10_ValuesMoveDown ==
    [][(phase = "loop" /\ phase' = "loop") =>
          \A name \in DOMAIN values : Below(values'[name], values[name])]_vars

C10_Witness ==
    /\ phase = "loop"
    /\ \E j, k \in DOMAIN sets :
          /\ j < k
          /\ sets[j].name = sets[k].name
          /\ sets[j].old = Top /\ sets[j].new.l = "Constant"
          /\ sets[k].old = sets[j].new /\ sets[k].new = Bottom

\* How often a name occurs in a list of names.
Occurrences(names, name) == Cardinality({k \in DOMAIN names : names[k] = name})

\* The downward moves of a name's LatticeValue in the current run.
DownwardMoves(name) ==
    Cardinality({k \in DOMAIN sets :
                    /\ sets[k].name = name
                    /\ sets[k].new # sets[k].old
                    /\ Below(sets[k].new, sets[k].old)})

PushesBounded ==
    \A name \in DOMAIN values : Occurrences(pushes, name) <= 1 + DownwardMoves(name)

\* C11: fold_constants terminates, on functions with loops and with block parameters
\* fed by themselves too: the worklist loop, once entered, is left with the worklist
\* empty, and in a run no name is pushed more often than once (at setup) plus once
\* for every downward move of its LatticeValue.
C11_FoldTerminates ==
    /\ []PushesBounded
    /\ (phase = "loop") ~> (phase = "idle" /\ worklist = <<>>)

C11_Witness ==
    /\ phase = "idle" /\ runs >= 1 /\ worklist = <<>>
    /\ func.name = "%loop"
    /\ \E name \in DOMAIN values :
          /\ name \in DOMAIN inputs
          /\ name \in SeqRange(inputs[name])
          /\ Occurrences(pushes, name) >= 1
    /\ \E name \in DOMAIN values : Occurrences(pushes, name) = 2

\* C12: LatticeValue::meet obeys the meet law on all lattice values x, y, z:
\* meet(Top, x) = x, meet(Bottom, x) = Bottom, meet(Constant(a), Constant(b)) is
\* Constant(a) if a = b and Bottom otherwise, and meet is commutative, idempotent
\* and associative.
C12_MeetLaw ==
    operation = "meet" =>
        /\ operands.x = Top => outcome[1] = operands.y
        /\ operands.x = Bottom => outcome[1] = Bottom
        /\ (operands.x.l = "Constant" /\ operands.y.l = "Constant") =>
              outcome[1] = (IF operands.x.c = operands.y.c THEN operands.x ELSE Bottom)
        /\ outcome[1] = outcome[2]
        /\ outcome[3] = operands.x
        /\ outcome[4] = outcome[5]

\* two different constants are met, and a Top joins them
C12_Witness ==
    /\ operation = "meet"
    /\ operands.x.l = "Constant" /\ operands.y.l = "Constant" /\ operands.x # operands.y
    /\ operands.z = Top
    /\ outcome[4] = Bottom

\* C14 (as claimed): eq, gt, uno, convert and is_nan applied to Top or Bottom give a
\* result or an error value, never a fatal abort.
C14_NoAbort ==
    operation \in {"eq", "gt", "uno", "convert", "is_nan", "into_int"} =>
        outcome[1].res # "unimplemented"

\* g is f with the branch i replaced by a jump to block that carries the branch's
\* arguments, and with the instructions after i taken out of the layout of i's block.
ReplacedByJump(f, g, i, block) ==
    /\ g.dfg[i] = Jump(block, Tail(f.dfg[i].args))
    /\ \A j \in DOMAIN f.dfg \ {i} : g.dfg[j] = f.dfg[j]
    /\ \E b \in DOMAIN f.blocks :
          /\ \E k \in DOMAIN f.blocks[b].insts :
                /\ f.blocks[b].insts[k] = i
                /\ g.blocks[b].insts = SubSeq(f.blocks[b].insts, 1, k)
          /\ g.blocks[b].params = f.blocks[b].params
          /\ \A c \in DOMAIN f.blocks \ {b} : g.blocks[c] = f.blocks[c]

\* C13: when interpretation of a conditional branch returns ContinueAt(block, _),
\* the branch becomes `jump block` with exactly the branch's arguments (its operands
\* after the condition), the instructions after it in its block leave the layout so
\* that the jump is last, and every other instruction and block stays as it was.
C13_BranchBecomesJump ==
    [][(Visiting /\ OutcomeKind = "ContinueAt" /\ func.dfg[CurUse].op = "brnz")
          => ReplacedByJump(func, func', CurUse, Outcome[1].block)]_vars

\* a brnz that carried an argument is now a jump with it, and its block is shorter
C13_Witness ==
    \E i \in DOMAIN func.dfg :
        /\ orig.dfg[i].op = "brnz"
        /\ func.dfg[i] = Jump(orig.dfg[i].dest, Tail(orig.dfg[i].args))
        /\ func.dfg[i].args # <<>>
        /\ \E b \in DOMAIN func.blocks :
              /\ Len(func.blocks[b].insts) < Len(orig.blocks[b].insts)
              /\ func.blocks[b].insts[Len(func.blocks[b].insts)] = i

BinaryOps == {"iadd", "isub", "udiv"}

\* The binary rule as stated: Bottom if an operand is Bottom; else the constant the
\* DataValue operation gives for two constants, or the error value (None) if that
\* operation fails; else Top.
BinaryRule(op, a, b) ==
    IF a = Bottom \/ b = Bottom THEN Some(Bottom)
    ELSE IF a = Top \/ b = Top THEN Some(Top)
    ELSE IF DataValue_op(op, a.c, b.c) = None THEN None
    ELSE Some(Constant(DataValue_op(op, a.c, b.c)[1]))

\* The visit of a binary instruction follows the rule: on the error value nothing
\* changes, otherwise the result holds what the rule gives for the operands.
BinaryVisit(data) ==
    IF BinaryRule(data.op, values[data.args[1]], values[data.args[2]]) = None
    THEN func' = func /\ values' = values /\ worklist' = worklist
    ELSE values'[data.res[1]] = BinaryRule(data.op, values[data.args[1]], values[data.args[2]])[1]

\* C15: a binary operation on lattice values gives Bottom if either operand is
\* Bottom, otherwise Constant(op(x, y)) for operands Constant(x) and Constant(y) when
\* the DataValue operation succeeds, otherwise Top; when the DataValue operation
\* fails (a division by zero) the result is an error value, and the lattice state
\* and the instruction stay as they were.
C15_BinaryRule ==
    /\ [](\A op \in BinaryOps : \A a, b \in LatticeValues :
             lattice_binary(op, a, b) = BinaryRule(op, a, b))
    /\ [][(Visiting /\ func.dfg[CurUse].op \in BinaryOps) => BinaryVisit(func.dfg[CurUse])]_vars

\* the division by zero of %div was visited and is still there, its result still Top
C15_Witness ==
    /\ phase = "idle" /\ runs >= 1
    /\ func.name = "%div"
    /\ values[0].l = "Constant" /\ values[1] = Constant(IntV(0))
    /\ func.dfg[3] = orig.dfg[3]
    /\ values[2] = Top

(***************************************************************************)
(* Properties of the reconstructed functions                               *)
(***************************************************************************)

\* The step before this state was a trace_end that stored a reconstructed function.
Reconstructed == TraceEnded /\ status = "running" /\ last.tracing[1] \in DOMAIN traces

\* The function it stored, and the trace it was built from.
TheFunction == traces[last.tracing[1]]
TheTrace == trace.observed

\* The instruction data of entry j of the trace, in the function it was stepped in.
OldData(j) == Env[seen[j].func_ref].dfg[TheTrace[j].ref]

ControlFlowOps == {"call", "jump", "fallthrough", "return", "brnz"}

\* The entries of the trace that are instructions, and those among them that
\* reconstruct_instruction copies (everything but Call, Jump and Return).
InstructionEntries == {j \in DOMAIN TheTrace : TheTrace[j].kind = "Instruction"}
CopiedEntries ==
    {j \in InstructionEntries : OldData(j).op \notin {"call", "jump", "fallthrough", "return"}}

\* The elements of a set of numbers in increasing order.
RECURSIVE Ascending(_)
Ascending(S) ==
    IF S = {} THEN <<>>
    ELSE <<CHOOSE x \in S : \A y \in S : x <= y>>
         \o Ascending(S \ {CHOOSE x \in S : \A y \in S : x <= y})

\* The ValueRefs that instruction k of a reconstructed function may use: the entry
\* block's parameters and the results of the instructions before it.
DefinedBefore(f, k) ==
    SeqRange(f.params) \cup UNION {SeqRange(f.insts[h].res) : h \in 1..(k - 1)}

\* Every definition of a ValueRef in f: a position among the parameters or a
\* result position of an instruction.
Definitions(f) ==
    {<<"param", k, 0>> : k \in DOMAIN f.params}
    \cup UNION {{<<"result", k, h>> : h \in DOMAIN f.insts[k].res} : k \in DOMAIN f.insts}

DefinedAt(f, d) ==
    IF d[1] = "param" THEN f.params[d[2]] ELSE f.insts[d[2]].res[d[3]]

\* C18: in every reconstructed function each ValueRef used as an argument is a
\* result of an earlier instruction or a parameter of the entry block, and every
\* ValueRef is defined exactly once.
C18_TotalAndUnique ==
    Reconstructed =>
        /\ \A k \in DOMAIN TheFunction.insts :
              SeqRange(TheFunction.insts[k].args) \subseteq DefinedBefore(TheFunction, k)
        /\ \A d, e \in Definitions(TheFunction) :
              d # e => DefinedAt(TheFunction, d) # DefinedAt(TheFunction, e)

\* an instruction of the function reads a lifted input and the result of an earlier
\* instruction
C18_Witness ==
    /\ Reconstructed
    /\ \E k \in DOMAIN TheFunction.insts :
          /\ SeqRange(TheFunction.insts[k].args) \cap SeqRange(TheFunction.params) # {}
          /\ SeqRange(TheFunction.insts[k].args) \ SeqRange(TheFunction.params) # {}

\* C19 (as claimed): every reconstructed function is straight-line: its last
\* instruction is a return and no instruction before it is a call, jump,
\* fallthrough, return or conditional branch.
C19_StraightLine ==
    Reconstructed =>
        /\ TheFunction.insts[Len(TheFunction.insts)].op = "return"
        /\ \A k \in 1..(Len(TheFunction.insts) - 1) :
              TheFunction.insts[k].op \notin ControlFlowOps

\* The reconstructor after the first n entries of the trace.
ReconstructorAfter(n) ==
    build_loop(SubSeq(TheTrace, 1, n), 2, setup(ReconstructorNew, TheTrace[1].ref))

\* The entries that are a Return into a caller whose frame the reconstructor holds.
ReturnsIntoCaller ==
    {j \in InstructionEntries :
        OldData(j).op = "return" /\ Len(ReconstructorAfter(j - 1).stack) >= 2}

\* The caller's frame maps every result of the call to the new name of the value
\* the callee returned for it.
CallResultsRenumbered(callee, caller, returns) ==
    \A i \in 1..MinOf(Len(callee.results), Len(returns)) :
        /\ callee.results[i] \in DOMAIN caller.renumbering
        /\ returns[i] \in DOMAIN callee.renumbering
        /\ caller.renumbering[callee.results[i]] = callee.renumbering[returns[i]]

ReturnRenumbers(before, after, returns) ==
    CallResultsRenumbered(before.stack[Len(before.stack)], after.stack[Len(after.stack)], returns)

\* C17 (as claimed): when the reconstructor meets a Return, the frame of the caller
\* gains a renumbering from each result of the call to the new ValueRef of the
\* value the callee returned, so that a later use of the call result is rewritten.
C17_ReturnRenumbersResults ==
    Reconstructed =>
        \A j \in ReturnsIntoCaller :
            ReturnRenumbers(ReconstructorAfter(j - 1), ReconstructorAfter(j), OldData(j).args)

\* The copied entries of the trace in trace order: entry k of this sequence is
\* what instruction k of the reconstructed function was copied from.
CopiedInOrder == Ascending(CopiedEntries)

\* A frame for the reconstructed function in which no value is bound yet.
NewRefsOf(f) ==
    SeqRange(f.params)
    \cup UNION {SeqRange(f.insts[k].res) \cup SeqRange(f.insts[k].args) : k \in DOMAIN f.insts}

FreshFrame(f) == [func_ref |-> 0, vals |-> [x \in NewRefsOf(f) |-> Unset], block |-> 1, pos |-> 1]

\* A free input gets the value it had in the observed execution where it is used
\* for the first time.
RECURSIVE BindInputs(_, _, _, _, _)
BindInputs(frame, params, args, observed_args, k) ==
    IF k > Len(args) THEN frame
    ELSE IF args[k] \in SeqRange(params) /\ frame.vals[args[k]] = Unset
         THEN BindInputs(set(frame, args[k], observed_args[k]), params, args, observed_args, k + 1)
    ELSE BindInputs(frame, params, args, observed_args, k + 1)

SameOperands(frame, data, at_hand) ==
    \A k \in DOMAIN data.args : frame.vals[data.args[k]] = at_hand.args[k]

SameResults(out, data, at_hand) ==
    /\ out.cf.kind \in {"Continue", "ContinueAt"}
    /\ \A k \in DOMAIN data.res : out.frame.vals[data.res[k]] = at_hand.res[k]

\* The reconstructed function, interpreted from instruction k on, gives every
\* instruction the operands and the result that its original had.
RECURSIVE Replays(_, _, _, _)
RECURSIVE ReplayOne(_, _, _, _)
RECURSIVE ReplayOut(_, _, _, _)
Replays(f, entries, k, frame) ==
    IF k > Len(entries) THEN TRUE
    ELSE ReplayOne(f, entries, k,
                   BindInputs(frame, f.params, f.insts[k].args, seen[entries[k]].args, 1))

ReplayOne(f, entries, k, bound) ==
    /\ SameOperands(bound, f.insts[k], seen[entries[k]])
    /\ ReplayOut(f, entries, k, inst_match(bound, f.insts[k], TraceDefault, <<>>, TRUE))

ReplayOut(f, entries, k, out) ==
    /\ SameResults(out, f.insts[k], seen[entries[k]])
    /\ Replays(f, entries, k + 1, out.frame)

\* C16 (as claimed): every instruction of a reconstructed function, interpreted on
\* the values the free inputs had in the observed execution, receives the operand
\* values and produces the result value that the original instruction had there.
C16_SameValues ==
    Reconstructed => Replays(TheFunction, CopiedInOrder, 1, FreshFrame(TheFunction))

\* The trace stays in the function it started in.
SingleFunction ==
    /\ \A j \in DOMAIN TheTrace : TheTrace[j].kind # "EnterFunction"
    /\ \A j \in InstructionEntries : seen[j].func_ref = TheTrace[1].ref

\* The traced instructions that are not control flow, in trace order.
NonControl == Ascending({j \in InstructionEntries : OldData(j).op \notin ControlFlowOps})

\* (a) The function holds one copy of each of them, in order, and then a bare return.
CopiesInOrder(f) ==
    /\ Len(f.insts) = Len(NonControl) + 1
    /\ \A k \in DOMAIN NonControl :
          /\ f.insts[k].op = OldData(NonControl[k]).op
          /\ f.insts[k].imm = OldData(NonControl[k]).imm
          /\ f.insts[k].cond = OldData(NonControl[k]).cond
          /\ Len(f.insts[k].args) = Len(OldData(NonControl[k]).args)
          /\ Len(f.insts[k].res) = Len(OldData(NonControl[k]).res)
    /\ f.insts[Len(f.insts)] = Return(<<>>)

\* Where the value of a name comes from: a free input (the name it had when the
\* trace began) or result ix of the traced instruction at entry `at`.
FreeInput(a) == [free |-> 1, at |-> a, ix |-> 0]
ResultOf(j, i) == [free |-> 0, at |-> j, ix |-> i]
Origin(m, a) == IF a \in DOMAIN m THEN m[a] ELSE FreeInput(a)

\* The branch at entry j of the trace was taken.
Taken(j) ==
    \/ OldData(j).op \in {"jump", "fallthrough"}
    \/ OldData(j).op = "brnz" /\ seen[j].args[1] = BoolV(TRUE)

\* The origins of the arguments of the traced non-control-flow instructions, from
\* entry j on; m maps the names bound so far to their origins.
RECURSIVE Origins(_, _, _)
Origins(j, m, acc) ==
    IF j > Len(TheTrace) THEN acc
    ELSE IF j \notin InstructionEntries THEN Origins(j + 1, m, acc)
    ELSE IF OldData(j).op \in ControlFlowOps
         THEN IF Taken(j)
              THEN Origins(j + 1,
                           renumber_zip(m, Env[seen[j].func_ref].blocks[OldData(j).dest].params,
                                        [i \in DOMAIN branch_arguments(OldData(j)) |->
                                            Origin(m, branch_arguments(OldData(j))[i])]),
                           acc)
              ELSE Origins(j + 1, m, acc)
    ELSE Origins(j + 1,
                 renumber_zip(m, OldData(j).res, [i \in DOMAIN OldData(j).res |-> ResultOf(j, i)]),
                 Append(acc, [i \in DOMAIN OldData(j).args |-> Origin(m, OldData(j).args[i])]))

\* The argument positions of the copies: <<k, i>> is argument i of instruction k.
ArgumentsOf(origins) == UNION {{<<k, i>> : i \in DOMAIN origins[k]} : k \in DOMAIN origins}

\* The index in NonControl of trace entry j.
CopyOf(j) == CHOOSE k \in DOMAIN NonControl : NonControl[k] = j

\* (b) An argument is an entry-block parameter exactly if its origin is a free
\* input, two arguments have one name exactly if they have one origin, a result of
\* a traced instruction is named by the result of its copy, and every parameter is
\* used.
ParamsAreFreeInputs(f, origins) ==
    /\ \A o \in ArgumentsOf(origins) :
          /\ (f.insts[o[1]].args[o[2]] \in SeqRange(f.params)) <=> (origins[o[1]][o[2]].free = 1)
          /\ origins[o[1]][o[2]].free = 0 =>
                f.insts[o[1]].args[o[2]]
                    = f.insts[CopyOf(origins[o[1]][o[2]].at)].res[origins[o[1]][o[2]].ix]
    /\ \A o, q \in ArgumentsOf(origins) :
          (f.insts[o[1]].args[o[2]] = f.insts[q[1]].args[q[2]])
              <=> (origins[o[1]][o[2]] = origins[q[1]][q[2]])
    /\ \A k \in DOMAIN f.params :
          \E o \in ArgumentsOf(origins) : f.insts[o[1]].args[o[2]] = f.params[k]

\* The values of f in the order reconstruction creates them: the results of an
\* instruction, then the parameters it is the first to use, in argument order.
RECURSIVE FirstUses(_, _, _, _)
FirstUses(args, k, known, acc) ==
    IF k > Len(args) THEN acc
    ELSE IF args[k] \in known \/ args[k] \in SeqRange(acc) THEN FirstUses(args, k + 1, known, acc)
    ELSE FirstUses(args, k + 1, known, Append(acc, args[k]))

RECURSIVE CreationOrder(_, _, _)
CreationOrder(f, k, acc) ==
    IF k > Len(f.insts) THEN acc
    ELSE CreationOrder(f, k + 1,
                       acc \o f.insts[k].res
                           \o FirstUses(f.insts[k].args, 1,
                                        SeqRange(acc) \cup SeqRange(f.insts[k].res), <<>>))

IsParameterOf(f, v) == v \in SeqRange(f.params)

\* (c) The parameters stand in the order of their first use, each once, and the
\* values are numbered 0, 1, 2, .. in creation order.
NumberedInCreationOrder(f, created) ==
    /\ created = [n \in DOMAIN created |-> n - 1]
    /\ f.params = SelectSeq(created, LAMBDA v : IsParameterOf(f, v))

\* C20 (as claimed): for a trace confined to one function the reconstructed
\* function holds, in trace order, exactly one copy of each traced instruction that
\* is not control flow, followed by one bare return; its entry-block parameters are
\* the free inputs in the order of their first use, each once; and its values are
\* numbered in creation order, a result before the inputs its instruction lifts.
C20_SingleFunctionShape ==
    (Reconstructed /\ SingleFunction) =>
        /\ CopiesInOrder(TheFunction)
        /\ ParamsAreFreeInputs(TheFunction, Origins(2, <<>>, <<>>))
        /\ NumberedInCreationOrder(TheFunction, CreationOrder(TheFunction, 1, <<>>))

(***************************************************************************)
(* Calls and jumps in the reconstructor                                    *)
(***************************************************************************)

CallEntries == {j \in InstructionEntries : OldData(j).op = "call"}
JumpEntries == {j \in InstructionEntries : OldData(j).op \in {"jump", "fallthrough"}}

\* How many calls deep entry k of the trace is below the function the trace began in.
Depth(k) ==
    Cardinality({m \in 2..k : TheTrace[m].kind = "EnterFunction"})
        - Cardinality({m \in 2..k : TheTrace[m].kind = "ExitFunction"})

\* Entry k was stepped in the callee of the call at entry j, before it returned.
InCallee(j, k) ==
    /\ k > j
    /\ Depth(k) = Depth(j) + 1
    /\ \A m \in (j + 1)..k : Depth(m) >= Depth(j) + 1

\* The entry-block parameters of the function the call at entry j calls, and the
\* new names of the arguments of a call or jump as they stand before entry j.
CalleeParams(j) == Env[get_func_ref_by_name(OldData(j).fn)[1]].blocks[1].params
TopFrame(st) == st.stack[Len(st.stack)]
NewNames(st, args) == [i \in DOMAIN args |-> renumbered(st, TopFrame(st).renumbering, args[i])]

\* The instruction of the reconstructed function that entry k was copied to.
CopyIndex(k) == CHOOSE i \in DOMAIN CopiedInOrder : CopiedInOrder[i] = k

\* The frame on top maps parameter i to names[i], for every parameter.
MapsParams(frame, params, names) ==
    /\ Len(params) = Len(names)
    /\ \A i \in DOMAIN params :
          params[i] \in DOMAIN frame.renumbering /\ frame.renumbering[params[i]] = names[i]

\* The call at entry j pushes a frame that maps the callee's parameters to the new
\* names of the call's arguments.
CallPushes(j, before, after) ==
    /\ Len(after.stack) = Len(before.stack) + 1
    /\ after.insts = before.insts
    /\ MapsParams(TopFrame(after), CalleeParams(j), NewNames(before, OldData(j).args))

\* The copy of entry k has, wherever entry k uses a parameter of the callee, the
\* name the call at entry j gave that parameter.
UsesRewritten(j, k, copy, names) ==
    \A i \in DOMAIN OldData(k).args :
        \A p \in DOMAIN CalleeParams(j) :
            OldData(k).args[i] = CalleeParams(j)[p] => copy.args[i] = names[p]

\* The jump at entry j leaves the stack as deep as it was and puts the mapping of
\* the destination's parameters in the place of the top frame's renumbering.
JumpReplaces(j, before, after) ==
    /\ Len(after.stack) = Len(before.stack)
    /\ after.insts = before.insts
    /\ TopFrame(after).func_ref = TopFrame(before).func_ref
    /\ DOMAIN TopFrame(after).renumbering
          = SeqRange(Env[seen[j].func_ref].blocks[OldData(j).dest].params)
    /\ MapsParams(TopFrame(after), Env[seen[j].func_ref].blocks[OldData(j).dest].params,
                  NewNames(before, OldData(j).args))

\* C21 (as claimed): a Call of the trace emits no call instruction and pushes a
\* renumbering frame that maps each entry-block parameter of the callee to the new
\* ValueRef of the matching argument of the call; the uses of the callee's
\* parameters inside the callee are rewritten to those ValueRefs, with no further
\* free input; a Jump puts the mapping of the destination block's parameters in the
\* place of the top frame and leaves the depth of the stack as it was.
C21_CallDissolves ==
    Reconstructed =>
        /\ \A k \in DOMAIN TheFunction.insts : TheFunction.insts[k].op # "call"
        /\ \A j \in CallEntries : CallPushes(j, ReconstructorAfter(j - 1), ReconstructorAfter(j))
        /\ \A j \in CallEntries : \A k \in CopiedEntries :
              InCallee(j, k) =>
                  UsesRewritten(j, k, TheFunction.insts[CopyIndex(k)],
                                NewNames(ReconstructorAfter(j - 1), OldData(j).args))
        /\ \A j \in JumpEntries : JumpReplaces(j, ReconstructorAfter(j - 1), ReconstructorAfter(j))

(***************************************************************************)
(* Failures of compilation and execution                                   *)
(***************************************************************************)

\* The interpreter is about to step a trace_end whose trace reconstructs.
EndsTrace ==
    /\ AtInst /\ CurData.op = "trace_end"
    /\ trace.tracing # None
    /\ ~build(remove_last(end(observe(trace, Instruction(CurInst))))).panic

\* The step taken is the one in which FunctionRunner::compile returns Err.
CompilationFails ==
    /\ EndsTrace
    /\ Stepped(inst(CurFrame, CurInst, trace, traces, FALSE))

\* The top-level call is over and its result is the trap.
ReturnedTrap(stk, st, results, trap) ==
    /\ stk = <<>>
    /\ st = "idle"
    /\ results[Len(results)].result = trap

\* C22: if compiling the reconstructed function fails during trace_end, the call
\* returns Trap::TraceError(CompilationFailed), as does every call around it, the
\* TraceStore is what it was and does not hold the ended id, and no further
\* instruction is interpreted.
C22_CompilationFailure ==
    [][CompilationFails =>
          /\ ReturnedTrap(stack', status', calls', Trap("TraceError(CompilationFailed)", 0))
          /\ traces' = traces
          /\ ~contains(traces', trace.tracing[1])]_vars

\* a call ended in the trap at a trace_end, and the id it ended is not stored
C22_Witness ==
    /\ TraceEnded
    /\ status = "idle"
    /\ calls[Len(calls)].result = Trap("TraceError(CompilationFailed)", 0)
    /\ ~contains(traces, last.tracing[1])

\* The interpreter is about to step a trace_start whose id the TraceStore holds.
Dispatches ==
    /\ AtInst /\ CurData.op = "trace_start"
    /\ contains(traces, CurData.imm)
    /\ ~Unbound(CurFrame, CurData.args)

\* Executing the stored code fails: FunctionRunner::execute returns no value.
ExecutionFails ==
    /\ Dispatches
    /\ execute(traces, CurData.imm, get_all(CurFrame, CurData.args)) = "unimplemented"

\* C23 (as claimed): if executing a stored compiled trace fails when trace_start
\* dispatches to it, the call returns Trap::TraceError(ExecutionFailed) and the
\* function is not interpreted past the trace_start.
C23_ExecutionFailure ==
    [][ExecutionFails =>
          ReturnedTrap(stack', status', calls', Trap("TraceError(ExecutionFailed)", 0))]_vars

(***************************************************************************)
(* The TraceStore over a run                                               *)
(***************************************************************************)

\* Every id the store holds it still holds after the step, with the same code.
StoreGrows ==
    \A id \in DOMAIN traces : contains(traces', id) /\ traces'[id] = traces[id]

\* The id of the trace being recorded, which its trace_end will insert, is not stored.
RecordedIdIsNew == trace.tracing # None => ~contains(traces, trace.tracing[1])

\* C24: over any sequence of interpreter calls the TraceStore only grows: an id it
\* contains it contains ever after, the code stored under an id is never replaced,
\* and the interpreter never inserts an id that is already present (the id of the
\* trace being recorded is never one the store holds).
C24_StoreMonotone ==
    /\ []RecordedIdIsNew
    /\ [][StoreGrows]_vars

\* a trace was stored by one call, and a later call ran to its return with the
\* store still holding it
C24_Witness ==
    /\ Len(calls) = 2 /\ status = "idle"
    /\ calls[1].name = "%traced" /\ calls[2].name = "%add"
    /\ calls[2].result.kind = "Return"
    /\ contains(traces, 1)

(***************************************************************************)
(* The semantics of single instructions                                    *)
(***************************************************************************)

\* What Interpreter::inst returns for the instruction at hand, and its first operand.
StepOut == inst(CurFrame, CurInst, trace, traces, TRUE)
FirstOperand == CurFrame.vals[CurData.args[1]]
Stepping(ops) == AtInst /\ CurData.op \in ops /\ FirstOperand # Unset

IsInt(v) == v.t = "int"
IsBool(v) == v.t = "bool"

\* brnz as stated: taken on true and on a nonzero integer, not taken on false and on
\* zero, InvalidType on anything else.
BrnzAsStated(c, data, cf) ==
    IF c = BoolV(TRUE) \/ (IsInt(c) /\ c.v # 0) THEN cf = ContinueAt(data.dest, Tail(data.args))
    ELSE IF c = BoolV(FALSE) \/ (IsInt(c) /\ c.v = 0) THEN cf = Continue
    ELSE cf.kind = "Trap" /\ cf.trap = "InvalidType"

\* C25 (as claimed): for every value c of its first argument, brnz yields
\* ContinueAt(destination, remaining arguments) if c is true or an integer other
\* than zero, Continue if c is false or the integer zero, and InvalidType otherwise.
C25_Brnz ==
    Stepping({"brnz"}) => BrnzAsStated(FirstOperand, CurData, StepOut.cf)

\* C26 (as claimed): irsub_imm subtracts in reverse: for an integer argument a and
\* an immediate imm it binds its result to imm - a, not to a - imm.
C26_IrsubImm ==
    (Stepping({"irsub_imm"}) /\ IsInt(FirstOperand)) =>
        /\ StepOut.cf = Continue
        /\ StepOut.frame.vals[CurData.res[1]] = IntV(CurData.imm - FirstOperand.v)

\* a <= b for a and b read as unsigned integers of one width: a negative number
\* stands for a value above every non-negative one.
UnsignedLessThanOrEqual(a, b) ==
    IF (a < 0) = (b < 0) THEN a <= b ELSE b < 0

\* icmp_imm as stated
IcmpImmAsStated(a, data, out) ==
    IF ~IsInt(a) THEN out.cf.kind = "Trap" /\ out.cf.trap = "InvalidType"
    ELSE /\ out.cf = Continue
         /\ data.cond = "ule" =>
               out.frame.vals[data.res[1]] = BoolV(UnsignedLessThanOrEqual(a.v, data.imm))
         /\ data.cond = "eq" => out.frame.vals[data.res[1]] = BoolV(a.v = data.imm)

\* C27 (as claimed): icmp_imm with UnsignedLessThanOrEqual binds true exactly when
\* the argument is at most the immediate, both read as unsigned integers of the
\* operand width, so that a negative argument is above every non-negative
\* immediate; with Equal it binds true exactly when they are equal; an argument
\* that is no integer fails with InvalidType.
C27_IcmpImm ==
    Stepping({"icmp_imm"}) => IcmpImmAsStated(FirstOperand, CurData, StepOut)

\* The operand of the instruction at hand has the wrong type: a brnz condition that
\* is neither true nor false, an icmp_imm argument that is no integer.
WrongType ==
    \/ Stepping({"brnz"}) /\ ~IsBool(FirstOperand)
    \/ Stepping({"icmp_imm"}) /\ ~IsInt(FirstOperand)

\* C29 (as claimed): an InvalidType trap carries the ValueRef of the operand that
\* had the wrong type: the condition of a brnz, whatever the number of destination
\* arguments, and the compared argument of an icmp_imm.
C29_InvalidTypeOperand ==
    WrongType => StepOut.cf = Trap("InvalidType", CurData.args[1])

(***************************************************************************)
(* Traps                                                                   *)
(***************************************************************************)

\* Interpreter::block has stepped every instruction of its block and none of them
\* left it.
FallsOffEnd == status = "running" /\ CurFrame.pos > Len(CurInsts)

\* The step taken is one in which Interpreter::inst returns a Trap.
StepTraps(compiled) ==
    /\ AtInst
    /\ inst(CurFrame, CurInst, trace, traces, compiled).cf.kind = "Trap"
    /\ Stepped(inst(CurFrame, CurInst, trace, traces, compiled))

\* C28: a block that falls off its end fails the call with Trap::Unreachable, and a
\* Trap raised in a call is returned unchanged by every call around it: the
\* interpreter stops at the first Trap.
C28_TrapsPropagate ==
    [][/\ FallsOffEnd =>
             ReturnedTrap(stack', status', calls', Trap("Unreachable", 0))
       /\ \A compiled \in BOOLEAN :
             StepTraps(compiled) =>
                 ReturnedTrap(stack', status', calls',
                              inst(CurFrame, CurInst, trace, traces, compiled).cf)]_vars

\* %falloff fell off its block while called by %calls_falloff, and the top-level
\* call returned Unreachable
C28_Witness ==
    /\ status = "idle"
    /\ last.op = "block_end"
    /\ Env[last.func_ref].name = "%falloff"
    /\ calls[Len(calls)].name = "%calls_falloff"
    /\ calls[Len(calls)].result = Trap("Unreachable", 0)

(***************************************************************************)
(* Frame::set                                                              *)
(***************************************************************************)

\* The instructions whose arm binds its result with Frame::set, through
\* Interpreter::binary, binary_imm, iconst and bconst or directly.
SetOps == {"iadd", "isub", "irsub_imm", "iconst", "bconst", "icmp_imm"}

\* The step at hand calls frame.set on the result of its instruction.
CallsSet == AtInst /\ CurData.op \in SetOps /\ StepOut.cf = Continue

\* C30 (as claimed): within one Frame set never overwrites: each ValueRef is
\* written by set at most once per frame, also when a block is entered again
\* through a backward jump or a taken brnz and its instructions are stepped again
\* in the same frame.  (A result is bound by no one but the set of its own
\* instruction, so it was set before exactly if it is bound.)
C30_SetOnce ==
    CallsSet => CurFrame.vals[CurData.res[1]] = Unset

(***************************************************************************)
(* The trace of one function body                                          *)
(***************************************************************************)

\* The first trace of this interpreter has been started and ended: Trace::start
\* found nothing observed (Trace::new) and the trace_end was stepped with the
\* trace active.
FirstTraceEnded == last.since.first = 1 /\ last.since.ended = 1

\* The instructions stepped between the trace_start and the trace_end, in the
\* order they were stepped.
SteppedBetween == [k \in DOMAIN last.since.insts |-> Instruction(last.since.insts[k].inst)]

\* All of them are instructions of the body of the function that stepped the
\* trace_start: no call was entered and none was left in between.
InBody ==
    \A k \in DOMAIN last.since.insts :
        /\ last.since.insts[k].func_ref = last.since.func_ref
        /\ Env[last.since.func_ref].dfg[last.since.insts[k].inst].op \notin {"call", "return"}

IsInstruction(e) == e.kind = "Instruction"

Iterated == collect(reconstruct(trace), <<>>)

\* the Instruction records, in recorded order
InstructionRecords == SelectSeq(trace.observed, IsInstruction)

\* The records on which the iterator finds no function on its stack.
RECURSIVE StackDepth(_, _)
StackDepth(obs, k) ==
    IF k = 0 THEN 0
    ELSE IF obs[k].kind \in {"StartInFunction", "EnterFunction"} THEN StackDepth(obs, k - 1) + 1
    ELSE IF obs[k].kind = "ExitFunction"
    THEN (IF StackDepth(obs, k - 1) = 0 THEN 0 ELSE StackDepth(obs, k - 1) - 1)
    ELSE StackDepth(obs, k - 1)

\* C32 (as claimed): on every trace the interpreter records, the iterator of
\* Trace::reconstruct yields one IteratedInstruction per Instruction record,
\* in recorded order, and its stack of functions is never empty at an Instruction
\* record, also when the traced function has returned into its caller before the
\* trace_end.
C32_IteratorYieldsAll ==
    /\ ~Iterated.panic
    /\ Len(Iterated.items) = Len(InstructionRecords)
    /\ \A k \in DOMAIN trace.observed :
           trace.observed[k].kind = "Instruction" => StackDepth(trace.observed, k) > 0

(***************************************************************************)
(* RunCommand::run                                                         *)
(***************************************************************************)

\* The calls of invoke_fn that returned Ok, and what the one call returned
Returned == invoked[1].returned

\* `part` occurs in `text` as it is
Includes(text, part) ==
    \E k \in 0..(Len(text) - Len(part)) : SubSeq(text, k + 1, k + Len(part)) = part

\* the comparison of the command holds between the expected values and `actual`
\* (= and != are those of Vec<DataValue>)
Holds(actual) ==
    \/ command.compare = "Equals" /\ Vec_eq(command.expected, actual)
    \/ command.compare = "NotEquals" /\ ~Vec_eq(command.expected, actual)

\* C33: RunCommand::run calls invoke_fn exactly once, on the function and the
\* arguments of the command.  A Run command returns Ok exactly when the invocation
\* succeeds and the comparison holds between expected and actual values; when the
\* invocation succeeds and the comparison fails it returns an Err whose text includes
\* the actual values; an error of the invocation is returned as it is; a Print
\* command returns Ok whenever the invocation succeeds.
C33_RunCommand ==
    ran # None =>
        /\ Len(invoked) = 1
        /\ invoked[1].func = command.invoke.func /\ invoked[1].args = command.invoke.args
        /\ command.kind = "Run" =>
              (ran[1].kind = "Ok" <=> (Returned.kind = "Ok" /\ Holds(Returned.vals)))
        /\ (command.kind = "Run" /\ Returned.kind = "Ok" /\ ran[1].kind = "Err") =>
              Includes(ran[1].text, Debug_vec(Returned.vals))
        /\ Returned.kind = "Err" => ran[1] = ErrOf(Returned.text)
        /\ (command.kind = "Print" /\ Returned.kind = "Ok") => ran[1].kind = "Ok"

\* `run: %f(1) == [1, NaN]` returned [1, 0.0]: the comparison failed and the text
\* of the Err holds the two values
C33_Witness ==
    /\ ran # None
    /\ command.kind = "Run" /\ command.compare = "Equals"
    /\ command.expected = <<DataValue("I32", 1, 0), DataValue("F32", 0, 1)>>
    /\ Returned = OkOf(<<DataValue("I32", 1, 0), DataValue("F32", 0, 0)>>)
    /\ ran[1].kind = "Err"
    /\ Includes(ran[1].text, <<"[", "I32(1)", ", ", "F32(0.0)", "]">>)

(***************************************************************************)
(* Trace::end                                                              *)
(***************************************************************************)

\* C34 (as claimed): whenever the interpreter steps a trace_end a trace is active,
\* so that Trace::end finds the id it takes, over any sequence of top-level calls
\* on one interpreter.
C34_EndFindsTrace ==
    (AtInst /\ CurData.op = "trace_end") => trace.tracing # None

(***************************************************************************)
(* FunctionReconstructor::build without a panic                            *)
(***************************************************************************)

\* A trace_end is about to be stepped with a trace active that is the first of its
\* interpreter: the records hold one StartInFunction.
EndingFirstTrace ==
    /\ AtInst /\ CurData.op = "trace_end"
    /\ trace.tracing # None
    /\ last.since.first = 1

\* what the TraceEnd arm hands to the reconstructor: the records without the one of
\* the trace_end itself
RecordsAtEnd == remove_last(end(observe(trace, Instruction(CurInst))))

\* C35 (as claimed): build completes without a failed assertion or panic on every
\* trace recorded between a trace_start and its trace_end: there is a frame on its
\* stack whenever an instruction is reconstructed, also after the return of the
\* function the trace started in, and an argument of a call or jump that the trace
\* neither defined nor used before is lifted as an input.
C35_BuildCompletes ==
    EndingFirstTrace => ~build(RecordsAtEnd).panic

(***************************************************************************)
(* The signature of the reconstructed function                             *)
(***************************************************************************)

\* what build returns at the trace_end about to be stepped
Built == build(RecordsAtEnd)

\* C36 (as claimed): the signature of the reconstructed function matches its entry
\* block: as many parameters, and the same type at every position, in whatever
\* order the inputs map is iterated and whatever the types of the inputs.
C36_SignatureMatchesBlock ==
    (EndingFirstTrace /\ ~Built.panic) =>
        \A order \in IterationOrders(Built.inputs) :
            /\ Len(signature(Built, order)) = Len(Built.params)
            /\ \A k \in DOMAIN Built.params : signature(Built, order)[k] = Built.types[k]

(***************************************************************************)
(* The fixpoint of fold_constants                                          *)
(***************************************************************************)

\* The worklist loop of fold_constants has run out: the worklist is empty and no
\* value is being visited.
WorklistEmpty == phase = "loop" /\ cur = None /\ worklist = <<>>

\* The value of parameter `p` is the meet of the values of its recorded inputs.
AtFixpoint(p) == values[p] = meet_fold(inputs[p], 1, values, Top)

\* C37 (as claimed): when the worklist of fold_constants is empty the LatticeValue
\* of every block parameter is the meet of the final LatticeValues of all the
\* branch arguments recorded as its inputs, also when one branch passes the same
\* value for two parameters of its destination.
C37_Fixpoint ==
    WorklistEmpty => \A p \in DOMAIN inputs : AtFixpoint(p)

(***************************************************************************)
(* Buffers go to the device that made them                                  *)
(***************************************************************************)

\* The last call was a parallel for; `kernels` holds its invocations.
ParallelFor == answer.op = "parallel_for"

\* Every listed buffer exists and was made by create_buffer on the device.
ListedMadeOn(device) ==
    \A k \in DOMAIN answer.listed :
        /\ answer.listed[k] \in DOMAIN buffers
        /\ buffers[answer.listed[k]].made_on = device

\* A listed id is unknown, or two listed buffers were made on different devices.
ListedBad ==
    \/ \E k \in DOMAIN answer.listed : answer.listed[k] \notin DOMAIN buffers
    \/ \E j, k \in DOMAIN answer.listed :
          /\ answer.listed[j] \in DOMAIN buffers
          /\ answer.listed[k] \in DOMAIN buffers
          /\ buffers[answer.listed[j]].made_on # buffers[answer.listed[k]].made_on

\* C38: invoke_parallel_for invokes the kernel on a device only if every listed
\* in and out buffer id exists and was created on that device; when a listed id
\* is unknown or two listed buffers were created on different devices the call
\* is an error and the kernel is not invoked; with no buffer listed the kernel
\* goes to the default device, the first one registered.
C38_BuffersOnTheirDevice ==
    ParallelFor =>
        /\ \A k \in DOMAIN kernels :
              /\ kernels[k].device = answer.device
              /\ ListedMadeOn(kernels[k].device)
              /\ answer.listed = <<>> => kernels[k].device = devices[1].id
        /\ ListedBad => (answer.kind = "Err" /\ kernels = <<>>)

\* A kernel runs on the second device with a buffer made there, while another
\* buffer lives on the first device.
C38_Witness ==
    /\ ParallelFor
    /\ kernels # <<>>
    /\ answer.listed # <<>>
    /\ Len(devices) = 2
    /\ answer.device = devices[2].id
    /\ \E b \in DOMAIN buffers : buffers[b].made_on = devices[1].id

(***************************************************************************)
(* The thread pool device and the offsets of its buffers                    *)
(***************************************************************************)

\* The last call was a parallel for that got to the thread pool device.
OnThreadPool ==
    /\ ParallelFor
    /\ answer.device # 0
    /\ DeviceOf(devices, answer.device)[1].name = Discovered[1]

\* The j-th listed buffer has an offset, set by a write that succeeded, and the
\* kernel got an offset and a length for every listed buffer.
PassedWritten(run_, j) ==
    /\ buffers[answer.listed[j]].offset # None
    /\ buffers[answer.listed[j]].written = 1
    /\ Len(run_.params) = 3 + 2 * Len(answer.listed)

KernelsGetWritten ==
    OnThreadPool =>
        \A k \in DOMAIN kernels : \A j \in DOMAIN answer.listed : PassedWritten(kernels[k], j)

\* A step that writes a slice of another length than the buffer's.
MismatchedWrite ==
    /\ requests' = requests + 1
    /\ answer'.op = "write_buffer"
    /\ answer'.id \in DOMAIN buffers
    /\ answer'.len # buffers[answer'.id].length

\* C39: the thread pool CPU device never invokes the kernel with a buffer whose
\* offset is unset: every buffer whose offset and length are passed to the
\* kernel has had a write that succeeded before; and a write of a slice whose
\* length differs from the length of the buffer returns an error and leaves the
\* recorded offset as it was.
C39_WrittenBeforeKernel ==
    /\ []KernelsGetWritten
    /\ [][MismatchedWrite => (answer'.kind = "Err" /\ buffers' = buffers)]_vars

\* A kernel of the thread pool device has got the offset of a written buffer.
C39_Witness ==
    /\ OnThreadPool
    /\ kernels # <<>>
    /\ answer.listed # <<>>

(***************************************************************************)
(* One kernel invocation for each thread id                                 *)
(***************************************************************************)

\* The thread ids of a parallel for of n threads.
ThreadIds == 0..(answer.n - 1)

\* The kernel was invoked for thread id t, and at most once.
InvokedOnce(t) ==
    /\ \E k \in DOMAIN kernels : kernels[k].thread_id = t
    /\ \A j, k \in DOMAIN kernels :
          (kernels[j].thread_id = t /\ kernels[k].thread_id = t) => j = k

\* Every listed buffer has been written.
ListedWritten == \A k \in DOMAIN answer.listed : buffers[answer.listed[k]].written = 1

====
